---------------------------- MODULE Spec2Model ----------------------------
(***************************************************************************)
(* Assignment lifecycle, acknowledgment escalation and break arbitration   *)
(* of the shift-assignment bot (src/src/assignment_scheduler.py,           *)
(* assignment_operations.py, break_manager.py, modals.py,                  *)
(* selection_service.py, models.py).                                       *)
(*                                                                         *)
(* The store is the committed content of the database.  A database session *)
(* is a unit of work: a write made through an object persists when the     *)
(* session that loaded the object commits, and only then.  A handler runs  *)
(* on one event loop, so the code between two real suspension points is    *)
(* one step.  Time is counted in minutes.                                  *)
(***************************************************************************)
EXTENDS Integers, Sequences, FiniteSets, TLC

\* ---------------------------------------------------------------- bounds
MaxTime == 60
EscHorizon == 15
BreakHorizon == 15
MaxRequests == 2
SysRequests == 1
ResolveRequests == 2
CoverRequests == 2
AuditCap == 2
ReqRequests == 2
QueueRequests == 2
QueueHorizon == 1
QueueFloor == 3
SchedRequests == 2
SchedHorizon == 10
CrashRequests == 2
CrashHorizon == 15
EditRequests == 2
StartHorizon == 60
CompleteRequests == 2
TakeRequests == 2
MaxReady == 2
MaxOps == 3
MaxPool == 2
HourHorizon == 720
TrigHorizon == 60

\* ------------------------------------------------------ program constants
MinOnDutyLow == 1
MinOnDutyHigh == 20
HourMinutes == 60
ShiftHours == 9
MinAckAge == 1
ReminderFrom == 5
ReminderUntil == 6
EscalationAge == 10
BreakMinutes == 15
LunchMinutes == 60
CooldownMinutes == 5
max_instances == 1
datetime_min == -1000000

\* ------------------------------------------------------------ value sets
Users == 1..3
Admins == {"admin1", "admin2"}
NoUser == 0
NoTime == -1
NoId == 0
NoTemplate == 0
MinOnDutyChoices == {1, 2}
Durations == {BreakMinutes, LunchMinutes}

DataLabelling == "Data Labelling"
CommsLead == "Comms Lead"

PENDING_ACK == "pending_ack"
ACTIVE == "active"
COMPLETED == "completed"
ENDED_EARLY == "ended_early"
COVERING == "covering"
PAUSED_BREAK == "paused_break"
PAUSED_LUNCH == "paused_lunch"

EDIT == "edit"
END_EARLY == "end_early"
BREAK15 == "break15"
LUNCH60 == "lunch60"

PENDING == "pending"
APPROVED == "approved"
DENIED == "denied"
QUEUED_FOR_CAPACITY == "queued_for_capacity"

ParamKeys == {"k1"}
ParamVals == {"v1", "v2"}
NoVal == "unset"
EmptyParams == [k \in ParamKeys |-> NoVal]
ProposedChanges == [ParamKeys -> ParamVals \cup {NoVal}] \ {EmptyParams}
OneChange == CHOOSE ch \in ProposedChanges : TRUE

VARIABLES
    now,            \* the clock, minutes since the shifts started
    users,          \* users table: user id -> row
    shifts,         \* shifts table: user id -> the user's shift row
    settings,       \* the settings singleton
    assignments,    \* assignments table: sequence of rows, id = index
    requests,       \* approval_requests table: sequence of rows, id = index
    audit,          \* audit_logs: <<action, target>> -> number of rows (capped)
    break_timers,   \* BreakManager.break_timers: assignment id -> entry
    countdowns,     \* the _break_countdown tasks that have not finished
    preCoverage,    \* history: coverage assignment id -> row before coverage
    schedulers,     \* the started AssignmentScheduler objects, in order of
                    \* creation: job id -> number of running instances
    last            \* history: the last operation and its result

vars == <<now, users, shifts, settings, assignments, requests, audit,
          break_timers, countdowns, preCoverage, schedulers, last>>

AssignmentIds == 1..Len(assignments)
RequestIds == 1..Len(requests)

Max(a, b) == IF a >= b THEN a ELSE b
Min(a, b) == IF a <= b THEN a ELSE b

\* The result record of an operation.
ResultX(op, ok, aid, uid, info, n, esc) ==
    [op |-> op, ok |-> ok, aid |-> aid, uid |-> uid, info |-> info,
     n |-> n, esc |-> esc]

Result(op, ok, aid, uid, info) == ResultX(op, ok, aid, uid, info, 0, <<>>)

\* The number of audit rows with this action and target (capped).
AuditCount(log, action, target) ==
    IF <<action, target>> \in DOMAIN log THEN log[<<action, target>>] ELSE 0

\* log_action: one more row with this action and target.
log_action(log, action, target) ==
    [k \in DOMAIN log \cup {<<action, target>>} |->
        IF k = <<action, target>>
        THEN Min(AuditCount(log, action, target) + 1, AuditCap)
        ELSE log[k]]

\* ------------------------------------------------------- hourly generation
\* An hour index without the upper clamp.
calculate_hour_index_unclamped(shift_start, current_time) ==
    Max(1, ((current_time - shift_start) \div HourMinutes) + 1)

\* calculate_hour_index
calculate_hour_index(shift_start, current_time) ==
    Max(1, Min(ShiftHours, ((current_time - shift_start) \div HourMinutes) + 1))

\* get_on_shift_operators: the users inside an active shift window
OnShift(u) ==
    /\ shifts[u].end_at = NoTime
    /\ shifts[u].start_at <= now
    /\ shifts[u].start_at >= now - ShiftHours * HourMinutes
    /\ users[u].is_operator

get_on_shift_operators == {u \in Users : OnShift(u)}

\* The sort key of select_comms_lead: never served sorts first, then id.
LeadKeyLess(u, v) ==
    \/ users[u].last_comms_lead_at < users[v].last_comms_lead_at
    \/ /\ users[u].last_comms_lead_at = users[v].last_comms_lead_at
       /\ u < v

select_comms_lead(operators) ==
    IF operators = {} THEN NoUser
    ELSE CHOOSE u \in operators : \A v \in operators \ {u} : LeadKeyLess(u, v)

\* The duplicate check of post_hourly_assignments.
ExistingAssignment_none(asg, u, sid, h) == FALSE

ExistingAssignment(asg, u, sid, h) ==
    \E i \in 1..Len(asg) :
        /\ asg[i].user_id = u
        /\ asg[i].shift_id = sid
        /\ asg[i].hour_index = h

NextHourBoundary(t) == ((t \div HourMinutes) + 1) * HourMinutes

NewAssignment_stale(u, sid, h, task) ==
    [user_id |-> u, shift_id |-> sid, template_id |-> NoTemplate,
     task_name |-> task, params |-> EmptyParams, status |-> PENDING_ACK,
     hour_index |-> 0, started_at |-> NoTime,
     ends_at |-> NextHourBoundary(now), ended_at |-> NoTime,
     covering_for_user_id |-> NoUser, created_at |-> now]

NewAssignment(u, sid, h, task) ==
    [user_id |-> u, shift_id |-> sid, template_id |-> NoTemplate,
     task_name |-> task, params |-> EmptyParams, status |-> PENDING_ACK,
     hour_index |-> h, started_at |-> NoTime,
     ends_at |-> NextHourBoundary(now), ended_at |-> NoTime,
     covering_for_user_id |-> NoUser, created_at |-> now]

\* The creation loop of post_hourly_assignments over the operators u..
RECURSIVE CreateAssignments(_, _, _)
CreateAssignments(asg, u, lead) ==
    IF u > Cardinality(Users) THEN asg
    ELSE IF ~OnShift(u) THEN CreateAssignments(asg, u + 1, lead)
    ELSE LET h == calculate_hour_index(shifts[u].start_at, now)
             sid == shifts[u].id
         IN IF ExistingAssignment(asg, u, sid, h)
            THEN CreateAssignments(asg, u + 1, lead)
            ELSE CreateAssignments(
                    Append(asg, NewAssignment(u, sid, h,
                        IF u = lead THEN CommsLead ELSE DataLabelling)),
                    u + 1, lead)

\* The body of post_hourly_assignments.
\* The comms lead row was loaded by the session of get_on_shift_operators,
\* which is closed by then: the session committing at line 237 does not hold
\* it, so users.last_comms_lead_at is not written.
post_hourly_assignments ==
    /\ now % HourMinutes = 0
    /\ LET operators == get_on_shift_operators
           lead == select_comms_lead(operators)
           created == CreateAssignments(assignments, 1, lead)
       IN /\ assignments' = created
          /\ audit' = IF Len(created) > Len(assignments)
                      THEN log_action(audit, "assignments_posted", NoId)
                      ELSE audit
          /\ last' = ResultX("post_hourly", TRUE, NoId, lead, "ok",
                             Len(created) - Len(assignments), <<>>)
    /\ UNCHANGED schedulers
    /\ UNCHANGED <<now, users, shifts, settings, requests, break_timers,
                   countdowns, preCoverage>>

\* post_hourly_assignments, fired by the cron trigger at minute 0.
PostHourly == post_hourly_assignments /\ UNCHANGED schedulers

\* ------------------------------------------------------ start and complete
\* An end time that is always computed anew.
StartedEndsAt_reset(ends_at) == NextHourBoundary(now)

\* start_task: the end time of the started assignment.
StartedEndsAt(ends_at) ==
    IF ends_at = NoTime THEN NextHourBoundary(now) ELSE ends_at

\* AssignmentOperations.start_task
StartTask(aid, uid) ==
    /\ IF aid \notin AssignmentIds
       THEN /\ last' = Result("start", FALSE, aid, uid, "not_found")
            /\ UNCHANGED <<assignments, audit>>
       ELSE IF assignments[aid].user_id # uid
       THEN /\ last' = Result("start", FALSE, aid, uid, "not_owner")
            /\ UNCHANGED <<assignments, audit>>
       ELSE IF assignments[aid].status # PENDING_ACK
       THEN /\ last' = Result("start", FALSE, aid, uid, "invalid_state")
            /\ UNCHANGED <<assignments, audit>>
       ELSE /\ assignments' = [assignments EXCEPT
                   ![aid].status = ACTIVE,
                   ![aid].started_at = now,
                   ![aid].ends_at = StartedEndsAt(@)]
            /\ audit' = log_action(audit, "task_started", aid)
            /\ last' = Result("start", TRUE, aid, uid, "ok")
    /\ UNCHANGED schedulers
    /\ UNCHANGED <<now, users, shifts, settings, requests, break_timers,
                   countdowns, preCoverage>>

\* A status test that lets a paused assignment through.
Completable_paused(status) ==
    status \in {ACTIVE, COVERING, PAUSED_BREAK, PAUSED_LUNCH}

\* complete_task: the statuses an assignment can be completed from.
Completable(status) == status \in {ACTIVE, COVERING}

\* AssignmentOperations.complete_task
CompleteTask(aid, uid) ==
    /\ IF aid \notin AssignmentIds
       THEN /\ last' = Result("complete", FALSE, aid, uid, "not_found")
            /\ UNCHANGED <<assignments, audit>>
       ELSE IF assignments[aid].user_id # uid
       THEN /\ last' = Result("complete", FALSE, aid, uid, "not_owner")
            /\ UNCHANGED <<assignments, audit>>
       ELSE IF ~Completable(assignments[aid].status)
       THEN /\ last' = Result("complete", FALSE, aid, uid, "invalid_state")
            /\ UNCHANGED <<assignments, audit>>
       ELSE /\ assignments' = [assignments EXCEPT
                   ![aid].status = COMPLETED,
                   ![aid].ended_at = now]
            /\ audit' = log_action(audit, "task_completed", aid)
            /\ last' = Result("complete", TRUE, aid, uid, "ok")
    /\ UNCHANGED schedulers
    /\ UNCHANGED <<now, users, shifts, settings, requests, break_timers,
                   countdowns, preCoverage>>

\* ------------------------------------------------- acknowledgment watch
MinOf(S) == CHOOSE x \in S : \A y \in S : x <= y

\* get_reassignment_candidates: the operators ACTIVE on the default task in
\* the hour index of the assignment, other than its owner.
get_reassignment_candidates(asg, orig) ==
    {asg[c].user_id : c \in {c \in 1..Len(asg) :
        /\ asg[c].hour_index = orig.hour_index
        /\ asg[c].status = ACTIVE
        /\ asg[c].task_name = DataLabelling
        /\ asg[c].user_id # orig.user_id
        /\ users[asg[c].user_id].is_operator}}

\* The query of _perform_reassignment for the new assignee's own assignment.
CurrentDataLabelling(asg, uid, h) ==
    {c \in 1..Len(asg) :
        /\ asg[c].user_id = uid
        /\ asg[c].hour_index = h
        /\ asg[c].status = ACTIVE
        /\ asg[c].task_name = DataLabelling}

\* _perform_reassignment, as committed.  The original assignment object
\* belongs to the session of check_pending_acknowledgments, which never
\* commits: its ENDED_EARLY status and ended_at (lines 645-646) are dropped
\* when that session closes.  The candidate's row belongs to the session of
\* escalate_unacknowledged_assignment, which commits at line 655.
perform_reassignment(asg, orig, cid) ==
    [asg EXCEPT ![cid].task_name = orig.task_name,
                ![cid].template_id = orig.template_id,
                ![cid].params = orig.params,
                ![cid].covering_for_user_id = orig.user_id]

\* An escalation that ends the assignment whether or not anyone takes it.
escalate_unacknowledged_assignment_ends(st, oid, orig) ==
    [asg |-> [st.asg EXCEPT ![oid].status = ENDED_EARLY,
                            ![oid].ended_at = now],
     log |-> log_action(st.log, "assignment_escalated", oid),
     esc |-> Append(st.esc, <<oid, NoId>>)]

\* escalate_unacknowledged_assignment for the assignment oid, loaded as orig;
\* st is the store, the audit log and the escalations made so far.
escalate_unacknowledged_assignment(st, oid, orig) ==
    LET candidates == get_reassignment_candidates(st.asg, orig)
        new_assignee == MinOf(candidates)
        current == CurrentDataLabelling(st.asg, new_assignee, orig.hour_index)
    IN IF candidates = {}
       THEN [asg |-> st.asg,
             log |-> log_action(st.log, "assignment_escalated", oid),
             esc |-> Append(st.esc, <<oid, NoId>>)]
       ELSE IF current = {}
       THEN [asg |-> st.asg,
             log |-> log_action(st.log, "assignment_escalated", oid),
             esc |-> Append(st.esc, <<oid, NoId>>)]
       ELSE [asg |-> perform_reassignment(st.asg, orig, MinOf(current)),
             log |-> log_action(st.log, "assignment_escalated", oid),
             esc |-> Append(st.esc, <<oid, MinOf(current)>>)]

\* The age tests of check_pending_acknowledgments.
ReminderDue(age) == age >= ReminderFrom /\ age < ReminderUntil
EscalationDue(age, task) == age >= EscalationAge /\ task # DataLabelling

\* The loop of check_pending_acknowledgments over the rows snap loaded at
\* the start of the pass.
RECURSIVE WatchLoop(_, _, _)
WatchLoop(st, i, snap) ==
    IF i > Len(snap) THEN st
    ELSE IF ~(snap[i].status = PENDING_ACK
              /\ snap[i].created_at <= now - MinAckAge)
    THEN WatchLoop(st, i + 1, snap)
    ELSE LET age == now - snap[i].created_at
         IN IF ReminderDue(age)
            THEN WatchLoop([st EXCEPT !.log =
                     log_action(@, "acknowledgment_reminder_sent", i)],
                     i + 1, snap)
            ELSE IF EscalationDue(age, snap[i].task_name)
            THEN WatchLoop(escalate_unacknowledged_assignment(st, i, snap[i]),
                           i + 1, snap)
            ELSE WatchLoop(st, i + 1, snap)

\* The body of check_pending_acknowledgments.
check_pending_acknowledgments ==
    /\ LET st == WatchLoop([asg |-> assignments, log |-> audit, esc |-> <<>>],
                           1, assignments)
       IN /\ assignments' = st.asg
          /\ audit' = st.log
          /\ last' = ResultX("ack_watch", TRUE, NoId, NoUser, "ok",
                             Len(st.esc), st.esc)
    /\ UNCHANGED <<now, users, shifts, settings, requests, break_timers,
                   countdowns, preCoverage>>

\* check_pending_acknowledgments, fired by the cron trigger every minute.
CheckPendingAcks == check_pending_acknowledgments /\ UNCHANGED schedulers

\* ------------------------------------------------------- break requests
BreakTypes == {BREAK15, LUNCH60}
ActiveStatuses == {ACTIVE, COVERING}
PausedStatuses == {PAUSED_BREAK, PAUSED_LUNCH}

NewRequest(uid, aid, type, status, duration, changes) ==
    [user_id |-> uid, assignment_id |-> aid, type |-> type,
     requested_at |-> now, duration_minutes |-> duration,
     proposed_changes |-> changes, status |-> status,
     resolved_at |-> NoTime, resolver_id |-> "none",
     resolver_note |-> "none"]

\* _get_current_active_assignments: the ids of the rows of the hour index
\* that are active, covering or paused.
get_current_active_assignments(asg, h) ==
    {i \in 1..Len(asg) :
        /\ asg[i].hour_index = h
        /\ asg[i].status \in ActiveStatuses \cup PausedStatuses}

check_minimum_staffing_all(asg, current_active, uid, min_required) ==
    Cardinality({i \in current_active :
        asg[i].status \in ActiveStatuses}) >= min_required

\* SelectionService.check_minimum_staffing over the rows with these ids
check_minimum_staffing(asg, current_active, uid, min_required) ==
    Cardinality({i \in current_active :
        /\ asg[i].status \in ActiveStatuses
        /\ asg[i].user_id # uid}) >= min_required

\* A query that overlooks the queued requests.
ExistingBreakRequest_pending(reqs, uid) ==
    \E r \in 1..Len(reqs) :
        /\ reqs[r].user_id = uid
        /\ reqs[r].type \in BreakTypes
        /\ reqs[r].status = PENDING

\* The query of request_break for an outstanding break request of the user.
ExistingBreakRequest(reqs, uid) ==
    \E r \in 1..Len(reqs) :
        /\ reqs[r].user_id = uid
        /\ reqs[r].type \in BreakTypes
        /\ reqs[r].status \in {PENDING, QUEUED_FOR_CAPACITY}

\* BreakManager.request_break
RequestBreak(aid, uid, type, duration) ==
    /\ IF aid \notin AssignmentIds
       THEN /\ last' = Result("request_break", FALSE, aid, uid, "not_found")
            /\ UNCHANGED <<requests, audit>>
       ELSE IF assignments[aid].user_id # uid
       THEN /\ last' = Result("request_break", FALSE, aid, uid, "not_owner")
            /\ UNCHANGED <<requests, audit>>
       ELSE IF assignments[aid].status \notin ActiveStatuses
       THEN /\ last' = Result("request_break", FALSE, aid, uid, "invalid_state")
            /\ UNCHANGED <<requests, audit>>
       ELSE IF ExistingBreakRequest(requests, uid)
       THEN /\ last' = Result("request_break", FALSE, aid, uid, "duplicate")
            /\ UNCHANGED <<requests, audit>>
       ELSE IF ~check_minimum_staffing(assignments,
                   get_current_active_assignments(assignments,
                       assignments[aid].hour_index),
                   uid, settings.min_on_duty)
       THEN /\ requests' = Append(requests, NewRequest(uid, aid, type,
                               QUEUED_FOR_CAPACITY, duration, EmptyParams))
            /\ audit' = log_action(audit, "break_request_queued", aid)
            /\ last' = Result("request_break", TRUE, aid, uid, "queued")
       ELSE /\ requests' = Append(requests, NewRequest(uid, aid, type,
                               PENDING, duration, EmptyParams))
            /\ audit' = log_action(audit, "break_request_created", aid)
            /\ last' = Result("request_break", TRUE, aid, uid, "pending")
    /\ UNCHANGED schedulers
    /\ UNCHANGED <<now, users, shifts, settings, assignments, break_timers,
                   countdowns, preCoverage>>

FindPendingRequest_any(reqs, aid, uid, type) ==
    LET found == {r \in 1..Len(reqs) :
                    /\ reqs[r].assignment_id = aid
                    /\ reqs[r].user_id = uid
                    /\ reqs[r].type = type}
    IN IF found = {} THEN NoId ELSE MinOf(found)

\* The PENDING request a resolution handler finds for its key, or NoId.
FindPendingRequest(reqs, aid, uid, type) ==
    LET found == {r \in 1..Len(reqs) :
                    /\ reqs[r].assignment_id = aid
                    /\ reqs[r].user_id = uid
                    /\ reqs[r].type = type
                    /\ reqs[r].status = PENDING}
    IN IF found = {} THEN NoId ELSE MinOf(found)

ResolvedRequest(req, approved, resolver) ==
    [req EXCEPT !.status = IF approved THEN APPROVED ELSE DENIED,
                !.resolved_at = now,
                !.resolver_id = resolver,
                !.resolver_note = "reason"]

\* The query of _setup_break_coverage: the other users' rows ACTIVE on the
\* default task in the hour index of the break-taker.
DataLabellers(asg, orig) ==
    {c \in 1..Len(asg) :
        /\ asg[c].hour_index = orig.hour_index
        /\ asg[c].task_name = DataLabelling
        /\ asg[c].status = ACTIVE
        /\ asg[c].user_id # orig.user_id}

\* The coverage row _start_break gets from _setup_break_coverage, or NoId.
CoverageFor(asg, aid) ==
    IF asg[aid].task_name # DataLabelling /\ DataLabellers(asg, asg[aid]) # {}
    THEN MinOf(DataLabellers(asg, asg[aid]))
    ELSE NoId

\* A coverage that marks the row and leaves its task as it was.
setup_break_coverage_marked(asg, orig, cid) ==
    [asg EXCEPT ![cid].covering_for_user_id = orig.user_id,
                ![cid].status = COVERING]

\* _setup_break_coverage: the writes to the coverage row cid
setup_break_coverage(asg, orig, cid) ==
    [asg EXCEPT ![cid].task_name = orig.task_name,
                ![cid].template_id = orig.template_id,
                ![cid].params = orig.params,
                ![cid].covering_for_user_id = orig.user_id,
                ![cid].status = COVERING]

\* The paused status _start_break chooses from the duration.
PausedStatusFor(duration) ==
    IF duration = BreakMinutes THEN PAUSED_BREAK ELSE PAUSED_LUNCH

\* _start_break: the writes to the store
start_break(asg, aid, duration) ==
    LET paused == [asg EXCEPT ![aid].status = PausedStatusFor(duration)]
        cid == CoverageFor(asg, aid)
    IN IF cid = NoId THEN paused
       ELSE setup_break_coverage(paused, paused[aid], cid)

\* BreakManager.resolve_break_request
\* The resolution written to the request stays although the break did not
\* start.
AfterFailedStart_kept(reqs, rid, resolver) ==
    [reqs EXCEPT ![rid] = ResolvedRequest(@, TRUE, resolver)]

\* resolve_break_request when _start_break returns False: db.rollback()
\* discards the resolution written to the request rid.
AfterFailedStart(reqs, rid, resolver) == reqs

ResolveBreak(aid, uid, type, approved, resolver) ==
    LET rid == FindPendingRequest(requests, aid, uid, type)
    IN
    /\ IF rid = NoId
       THEN /\ last' = Result("resolve_break", FALSE, aid, uid, "already_resolved")
            /\ UNCHANGED <<requests, assignments, audit, countdowns, preCoverage>>
       ELSE IF ~approved
       THEN /\ requests' = [requests EXCEPT ![rid] =
                               ResolvedRequest(@, FALSE, resolver)]
            /\ audit' = log_action(audit, "break_request_denied", aid)
            /\ last' = Result("resolve_break", TRUE, aid, uid, "denied")
            /\ UNCHANGED <<assignments, countdowns, preCoverage>>
       ELSE IF aid \notin AssignmentIds
                \/ assignments[aid].status \notin ActiveStatuses
       THEN \* _start_break returned False: rollback
            /\ last' = Result("resolve_break", FALSE, aid, uid, "start_failed")
            /\ requests' = AfterFailedStart(requests, rid, resolver)
            /\ UNCHANGED <<assignments, audit, countdowns, preCoverage>>
       ELSE LET duration == requests[rid].duration_minutes
                cid == CoverageFor(assignments, aid)
            IN /\ requests' = [requests EXCEPT ![rid] =
                                  ResolvedRequest(@, TRUE, resolver)]
               /\ assignments' = start_break(assignments, aid, duration)
               /\ countdowns' = Append(countdowns,
                      [assignment_id |-> aid, user_id |-> uid,
                       duration_minutes |-> duration,
                       coverage_assignment |-> cid,
                       pc |-> "created", fire_at |-> NoTime,
                       cancelled |-> FALSE,
                       paused_row |-> assignments[aid]])
               /\ preCoverage' =
                      IF cid = NoId THEN preCoverage
                      ELSE [k \in DOMAIN preCoverage \cup {cid} |->
                               IF k = cid THEN assignments[cid]
                               ELSE preCoverage[k]]
               /\ audit' = log_action(audit, "break_started", aid)
               /\ last' = Result("resolve_break", TRUE, aid, uid, "approved")
    /\ UNCHANGED schedulers
    /\ UNCHANGED <<now, users, shifts, settings, break_timers>>

\* ------------------------------------------------ countdown, resume, cancel
\* _resume_from_break: the writes to the store; cid is the coverage
\* reference the caller holds.
resume_from_break(asg, aid, cid) ==
    IF aid \notin 1..Len(asg) THEN asg
    ELSE IF asg[aid].status \notin PausedStatuses THEN asg
    ELSE LET resumed == [asg EXCEPT ![aid].status = ACTIVE]
         IN IF cid # NoId /\ resumed[cid].status = COVERING
            THEN [resumed EXCEPT ![cid].task_name = DataLabelling,
                                 ![cid].template_id = NoTemplate,
                                 ![cid].params = EmptyParams,
                                 ![cid].covering_for_user_id = NoUser,
                                 ![cid].status = ACTIVE]
            ELSE resumed

Resumes(asg, aid) ==
    aid \in 1..Len(asg) /\ asg[aid].status \in PausedStatuses

RemoveAt(seq, i) == SubSeq(seq, 1, i - 1) \o SubSeq(seq, i + 1, Len(seq))

PopTimer(timers, aid) == [a \in DOMAIN timers \ {aid} |-> timers[a]]

\* _break_countdown up to its sleep: the task registers its break.
CountdownStart(i) ==
    /\ i \in 1..Len(countdowns)
    /\ countdowns[i].pc = "created"
    /\ LET t == countdowns[i]
       IN /\ break_timers' =
                [a \in DOMAIN break_timers \cup {t.assignment_id} |->
                    IF a = t.assignment_id
                    THEN [user_id |-> t.user_id, start_time |-> now,
                          duration_minutes |-> t.duration_minutes,
                          coverage_assignment |-> t.coverage_assignment]
                    ELSE break_timers[a]]
          /\ countdowns' = [countdowns EXCEPT
                 ![i].pc = "sleeping",
                 ![i].fire_at = now + t.duration_minutes]
          /\ last' = ResultX("countdown_start", TRUE, t.assignment_id,
                             t.user_id, "ok", t.coverage_assignment, <<>>)
    /\ UNCHANGED schedulers
    /\ UNCHANGED <<now, users, shifts, settings, assignments, requests,
                   audit, preCoverage>>

\* _break_countdown after its sleep: resume, then drop the timer entry.
CountdownFire(i) ==
    /\ i \in 1..Len(countdowns)
    /\ countdowns[i].pc = "sleeping"
    /\ now >= countdowns[i].fire_at
    /\ LET t == countdowns[i]
       IN /\ assignments' = resume_from_break(assignments, t.assignment_id,
                                              t.coverage_assignment)
          /\ audit' = IF Resumes(assignments, t.assignment_id)
                      THEN log_action(audit, "break_auto_resumed",
                                      t.assignment_id)
                      ELSE audit
          /\ break_timers' = PopTimer(break_timers, t.assignment_id)
          /\ countdowns' = RemoveAt(countdowns, i)
          /\ last' = ResultX("countdown_fire",
                             Resumes(assignments, t.assignment_id),
                             t.assignment_id, t.user_id, "ok",
                             t.coverage_assignment, <<>>)
    /\ UNCHANGED schedulers
    /\ UNCHANGED <<now, users, shifts, settings, requests, preCoverage>>

\* The countdown tasks sleeping for the assignment, marked as belonging to
\* a cancelled break.  The mark is history only: no operation reads it,
\* nor paused_row, the row of the assignment when its break was approved.
MarkCancelled(cds, aid) ==
    [i \in 1..Len(cds) |->
        IF cds[i].assignment_id = aid /\ cds[i].pc = "sleeping"
        THEN [cds[i] EXCEPT !.cancelled = TRUE]
        ELSE cds[i]]

\* BreakManager.cancel_break: the countdown task is left running.
CancelBreak(aid, uid) ==
    /\ IF aid \notin DOMAIN break_timers
       THEN /\ last' = Result("cancel_break", FALSE, aid, uid, "no_break")
            /\ UNCHANGED <<assignments, audit, break_timers, countdowns>>
       ELSE IF break_timers[aid].user_id # uid
       THEN /\ last' = Result("cancel_break", FALSE, aid, uid, "not_owner")
            /\ UNCHANGED <<assignments, audit, break_timers, countdowns>>
       ELSE LET cid == break_timers[aid].coverage_assignment
            IN /\ assignments' = resume_from_break(assignments, aid, cid)
               /\ audit' = IF Resumes(assignments, aid)
                           THEN log_action(audit, "break_auto_resumed", aid)
                           ELSE audit
               /\ break_timers' = PopTimer(break_timers, aid)
               /\ countdowns' = MarkCancelled(countdowns, aid)
               /\ last' = ResultX("cancel_break", TRUE, aid, uid, "ok",
                                  cid, <<>>)
    /\ UNCHANGED schedulers
    /\ UNCHANGED <<now, users, shifts, settings, requests, preCoverage>>

\* ---------------------------------------------------- queue re-evaluation
\* The queued break requests, as check_queued_break_requests loads them.
QueuedRequests(reqs) ==
    {r \in 1..Len(reqs) :
        /\ reqs[r].status = QUEUED_FOR_CAPACITY
        /\ reqs[r].type \in BreakTypes}

\* The newest request first.
FirstQueued_newest(reqs, S) ==
    CHOOSE r \in S : \A q \in S :
        \/ reqs[r].requested_at > reqs[q].requested_at
        \/ reqs[r].requested_at = reqs[q].requested_at /\ r >= q

\* The first of the requests S in the order of requested_at (FIFO); rows
\* of one minute come in the order of their ids.
FirstQueued(reqs, S) ==
    CHOOSE r \in S : \A q \in S :
        \/ reqs[r].requested_at < reqs[q].requested_at
        \/ reqs[r].requested_at = reqs[q].requested_at /\ r <= q

\* The loop of check_queued_break_requests over the loaded requests S that
\* it has not looked at yet: a request of an assignment that is not active
\* is denied, the first one the staffing allows is promoted and ends the
\* loop.
RECURSIVE QueueLoop(_, _)
QueueLoop(st, S) ==
    IF S = {} THEN st
    ELSE LET r == FirstQueued(st.reqs, S)
             aid == st.reqs[r].assignment_id
         IN IF aid \notin AssignmentIds
               \/ assignments[aid].status \notin ActiveStatuses
            THEN QueueLoop([st EXCEPT
                     !.reqs[r].status = DENIED,
                     !.reqs[r].resolved_at = now,
                     !.reqs[r].resolver_note = "Assignment no longer active"],
                     S \ {r})
            ELSE IF check_minimum_staffing(assignments,
                        get_current_active_assignments(assignments,
                            assignments[aid].hour_index),
                        st.reqs[r].user_id, settings.min_on_duty)
            THEN [reqs |-> [st.reqs EXCEPT ![r].status = PENDING],
                  log |-> log_action(st.log, "break_request_unqueued", aid),
                  promoted |-> r]
            ELSE QueueLoop(st, S \ {r})

\* BreakManager.check_queued_break_requests: one pass.
CheckQueuedBreakRequests ==
    /\ LET st == QueueLoop([reqs |-> requests, log |-> audit,
                            promoted |-> NoId], QueuedRequests(requests))
       IN /\ requests' = st.reqs
          /\ audit' = st.log
          /\ last' = ResultX("check_queued", TRUE, NoId, NoUser, "ok",
                             st.promoted, <<>>)
    /\ UNCHANGED schedulers
    /\ UNCHANGED <<now, users, shifts, settings, assignments, break_timers,
                   countdowns, preCoverage>>

\* ----------------------------------------------------- settings, restart
\* settings_command with min_on_duty given (bot.py): the range check, then
\* the write.
SettingsCommand(min_on_duty) ==
    /\ IF min_on_duty < MinOnDutyLow \/ min_on_duty > MinOnDutyHigh
       THEN /\ last' = ResultX("settings", FALSE, NoId, NoUser, "out_of_range",
                               min_on_duty, <<>>)
            /\ UNCHANGED <<settings, audit>>
       ELSE /\ settings' = [settings EXCEPT !.min_on_duty = min_on_duty]
            /\ audit' = log_action(audit, "settings_updated", NoId)
            /\ last' = ResultX("settings", TRUE, NoId, NoUser, "ok",
                               min_on_duty, <<>>)
    /\ UNCHANGED schedulers
    /\ UNCHANGED <<now, users, shifts, assignments, requests, break_timers,
                   countdowns, preCoverage>>

\* The process stops and is started again: the store stays, the memory of
\* the BreakManager (break_timers, constructor line 26) and the countdown
\* tasks created by _start_break are gone.  Nothing at start-up reads the
\* paused assignments back.  The scheduler objects are gone with the
\* process as well.
Restart ==
    /\ break_timers' = [a \in {} |-> 0]
    /\ countdowns' = <<>>
    /\ schedulers' = <<>>
    /\ last' = Result("restart", TRUE, NoId, NoUser, "ok")
    /\ UNCHANGED <<now, users, shifts, settings, assignments, requests,
                   audit, preCoverage>>

\* ------------------------------------------- edit and end-early requests
\* A query that finds nothing.
ExistingPendingRequest_none(reqs, aid, type) == FALSE

\* The query of request_edit / request_end_early for a pending request of
\* the type on the assignment.
ExistingPendingRequest(reqs, aid, type) ==
    \E r \in 1..Len(reqs) :
        /\ reqs[r].assignment_id = aid
        /\ reqs[r].type = type
        /\ reqs[r].status = PENDING

\* The part request_edit and request_end_early share.
RequestApproval(op, created, type, aid, uid, changes) ==
    /\ IF aid \notin AssignmentIds
       THEN /\ last' = Result(op, FALSE, aid, uid, "not_found")
            /\ UNCHANGED <<requests, audit>>
       ELSE IF assignments[aid].user_id # uid
       THEN /\ last' = Result(op, FALSE, aid, uid, "not_owner")
            /\ UNCHANGED <<requests, audit>>
       ELSE IF assignments[aid].status \notin ActiveStatuses
       THEN /\ last' = Result(op, FALSE, aid, uid, "invalid_state")
            /\ UNCHANGED <<requests, audit>>
       ELSE IF ExistingPendingRequest(requests, aid, type)
       THEN /\ last' = Result(op, FALSE, aid, uid, "duplicate")
            /\ UNCHANGED <<requests, audit>>
       ELSE /\ requests' = Append(requests,
                               NewRequest(uid, aid, type, PENDING, 0, changes))
            /\ audit' = log_action(audit, created, aid)
            /\ last' = Result(op, TRUE, aid, uid, "pending")
    /\ UNCHANGED schedulers
    /\ UNCHANGED <<now, users, shifts, settings, assignments, break_timers,
                   countdowns, preCoverage>>

\* AssignmentOperations.request_edit
RequestEdit(aid, uid, changes) ==
    RequestApproval("request_edit", "edit_request_created", EDIT,
                    aid, uid, changes)

\* AssignmentOperations.request_end_early
RequestEndEarly(aid, uid) ==
    RequestApproval("request_end_early", "end_early_request_created",
                    END_EARLY, aid, uid, EmptyParams)

\* dict.update: the proposed values override, the other keys stay.
MergeParams(params, changes) ==
    [k \in ParamKeys |-> IF changes[k] # NoVal THEN changes[k] ELSE params[k]]

\* The value of the params column after the commit of the approval.  The
\* handler takes "assignment.params or {}": for a row without parameters
\* that is a new dict, which the assignment to the attribute makes the new
\* value of the column.  For a row with parameters it is the loaded dict
\* itself, updated in place and assigned back; params is a plain JSON
\* column (models.py 126), the unit of work compares the value with the
\* loaded one, finds the same object and writes nothing.
CommittedParams(params, changes) ==
    IF params = EmptyParams THEN MergeParams(params, changes) ELSE params

\* EditApprovalView._handle_approval, from the approve button
ApproveEdit(aid, uid, resolver) ==
    LET rid == FindPendingRequest(requests, aid, uid, EDIT)
    IN
    /\ IF rid = NoId
       THEN /\ last' = Result("resolve_edit", FALSE, aid, uid, "already_resolved")
            /\ UNCHANGED <<requests, assignments, audit>>
       ELSE /\ requests' = [requests EXCEPT ![rid] =
                               ResolvedRequest(@, TRUE, resolver)]
            /\ assignments' =
                  IF aid \in AssignmentIds
                     /\ requests[rid].proposed_changes # EmptyParams
                  THEN [assignments EXCEPT ![aid].params =
                           CommittedParams(@, requests[rid].proposed_changes)]
                  ELSE assignments
            /\ audit' = log_action(audit, "edit_request_resolved", aid)
            /\ last' = Result("resolve_edit", TRUE, aid, uid, "approved")
    /\ UNCHANGED schedulers
    /\ UNCHANGED <<now, users, shifts, settings, break_timers, countdowns,
                   preCoverage>>

\* EndEarlyApprovalView._handle_approval, from the approve button
ApproveEndEarly(aid, uid, resolver) ==
    LET rid == FindPendingRequest(requests, aid, uid, END_EARLY)
    IN
    /\ IF rid = NoId
       THEN /\ last' = Result("resolve_end_early", FALSE, aid, uid,
                              "already_resolved")
            /\ UNCHANGED <<requests, assignments>>
       ELSE /\ requests' = [requests EXCEPT ![rid] =
                               ResolvedRequest(@, TRUE, resolver)]
            /\ assignments' =
                  IF aid \in AssignmentIds
                  THEN [assignments EXCEPT ![aid].status = ENDED_EARLY,
                                           ![aid].ended_at = now]
                  ELSE assignments
            /\ last' = Result("resolve_end_early", TRUE, aid, uid, "approved")
    /\ UNCHANGED schedulers
    /\ UNCHANGED <<now, users, shifts, settings, audit, break_timers,
                   countdowns, preCoverage>>

\* ApprovalReasonModal._handle_denial, reached from either deny button
DenyRequest(type, aid, uid, resolver) ==
    LET rid == FindPendingRequest(requests, aid, uid, type)
        op == IF type = EDIT THEN "resolve_edit" ELSE "resolve_end_early"
    IN
    /\ type \in {EDIT, END_EARLY}
    /\ IF rid = NoId
       THEN /\ last' = Result(op, FALSE, aid, uid, "already_resolved")
            /\ UNCHANGED <<requests, audit>>
       ELSE /\ requests' = [requests EXCEPT ![rid] =
                               ResolvedRequest(@, FALSE, resolver)]
            /\ audit' = log_action(audit,
                            IF type = EDIT THEN "edit_request_denied"
                            ELSE "end_early_request_denied", aid)
            /\ last' = Result(op, TRUE, aid, uid, "denied")
    /\ UNCHANGED schedulers
    /\ UNCHANGED <<now, users, shifts, settings, assignments, break_timers,
                   countdowns, preCoverage>>

\* ------------------------------------------------------------------ clock
\* Time passes.  A countdown task that was just created starts, and a
\* sleeping one wakes, before the clock moves past it.
Tick(d, horizon) ==
    /\ now + d <= horizon
    /\ \A i \in 1..Len(countdowns) :
          /\ countdowns[i].pc # "created"
          /\ countdowns[i].fire_at >= now + d
    /\ now' = now + d
    /\ last' = ResultX("tick", TRUE, NoId, NoUser, "ok", d, <<>>)
    /\ UNCHANGED schedulers
    /\ UNCHANGED <<users, shifts, settings, assignments, requests, audit,
                   break_timers, countdowns, preCoverage>>

\* ---------------------------------------------------------- specifications
InitWith(on_shift, min_on_duty_values) ==
    /\ now = 0
    /\ users = [u \in Users |-> [is_operator |-> TRUE,
                                 last_comms_lead_at |-> NoTime]]
    /\ shifts = [u \in Users |->
                    [id |-> u, start_at |-> 0,
                     end_at |-> IF u \in on_shift THEN NoTime ELSE 0]]
    /\ settings \in [min_on_duty : min_on_duty_values]
    /\ assignments = <<>>
    /\ requests = <<>>
    /\ audit = [k \in {} |-> 0]
    /\ break_timers = [a \in {} |-> 0]
    /\ countdowns = <<>>
    /\ preCoverage = [a \in {} |-> 0]
    /\ schedulers = <<>>
    /\ last = Result("init", TRUE, NoId, NoUser, "ok")

Owner(aid) == assignments[aid].user_id

BreakKinds == {<<BREAK15, BreakMinutes>>, <<LUNCH60, LunchMinutes>>}

\* AssignmentView._configure_buttons: the widget enables the start button
\* for a PENDING_ACK assignment and the other buttons for an ACTIVE or
\* COVERING one.
CanStart(aid) == assignments[aid].status = PENDING_ACK
CanAct(aid) == assignments[aid].status \in ActiveStatuses

\* The hours of a shift: the hourly trigger, acknowledgments, the watch
\* trigger and breaks with their countdowns.
Init == InitWith({1, 2}, {1})

Next ==
    \/ PostHourly
    \/ \E aid \in AssignmentIds : CanStart(aid) /\ StartTask(aid, Owner(aid))
    \/ CheckPendingAcks
    \/ \E aid \in AssignmentIds, k \in BreakKinds :
          /\ CanAct(aid)
          /\ Len(requests) < SysRequests
          /\ RequestBreak(aid, Owner(aid), k[1], k[2])
    \/ \E aid \in AssignmentIds, t \in BreakTypes, ok \in BOOLEAN :
          /\ FindPendingRequest(requests, aid, Owner(aid), t) # NoId
          /\ ResolveBreak(aid, Owner(aid), t, ok, "admin1")
    \/ \E i \in 1..Len(countdowns) : CountdownStart(i)
    \/ \E i \in 1..Len(countdowns) : CountdownFire(i)
    \/ \E aid \in AssignmentIds :
          aid \in DOMAIN break_timers /\ CancelBreak(aid, Owner(aid))
    \/ Tick(HourMinutes, MaxTime)

Spec == Init /\ [][Next]_vars

\* The acknowledgment watch in steps of five minutes.
InitEsc == InitWith(Users, {1})

NextEsc ==
    \/ PostHourly
    \/ \E aid \in AssignmentIds : StartTask(aid, Owner(aid))
    \/ \E aid \in AssignmentIds : CompleteTask(aid, Owner(aid))
    \/ CheckPendingAcks
    \/ Tick(ReminderFrom, EscHorizon)

SpecEsc == InitEsc /\ [][NextEsc]_vars

\* Break arbitration for two operators, in steps of a break.
InitBreak == InitWith({1, 2}, MinOnDutyChoices)

NextBreak ==
    \/ PostHourly
    \/ \E aid \in AssignmentIds : StartTask(aid, Owner(aid))
    \/ \E aid \in AssignmentIds, k \in BreakKinds :
          /\ Len(requests) < MaxRequests
          /\ RequestBreak(aid, Owner(aid), k[1], k[2])
    \/ \E aid \in AssignmentIds, t \in BreakTypes, ok \in BOOLEAN :
          ResolveBreak(aid, Owner(aid), t, ok, "admin1")
    \/ \E i \in 1..Len(countdowns) : CountdownStart(i)
    \/ \E i \in 1..Len(countdowns) : CountdownFire(i)
    \/ \E aid \in AssignmentIds : CancelBreak(aid, Owner(aid))
    \/ Tick(BreakMinutes, BreakHorizon)

SpecBreak == InitBreak /\ [][NextBreak]_vars

\* Resolution of approval requests by two admins.
\* The operator whose requests the admins resolve: the first one.
Requester == MinOf(Users)

\* The admins hold the approval views of the requests that were made,
\* resolved or not.
Shown(aid, type) ==
    \E r \in RequestIds :
        requests[r].assignment_id = aid /\ requests[r].type = type

InitResolve == InitWith({1, 2}, {1})

NextResolve ==
    \/ PostHourly
    \/ \E aid \in AssignmentIds : CanStart(aid) /\ StartTask(aid, Owner(aid))
    \/ \E aid \in AssignmentIds : CanAct(aid) /\ CompleteTask(aid, Owner(aid))
    \/ \E aid \in AssignmentIds, k \in BreakKinds :
          /\ CanAct(aid) /\ Owner(aid) = Requester
          /\ Len(requests) < ResolveRequests
          /\ RequestBreak(aid, Owner(aid), k[1], k[2])
    \/ \E aid \in AssignmentIds, ch \in {OneChange} :
          /\ CanAct(aid) /\ Owner(aid) = Requester
          /\ Len(requests) < ResolveRequests
          /\ RequestEdit(aid, Owner(aid), ch)
    \/ \E aid \in AssignmentIds :
          /\ CanAct(aid) /\ Owner(aid) = Requester
          /\ Len(requests) < ResolveRequests
          /\ RequestEndEarly(aid, Owner(aid))
    \/ \E aid \in AssignmentIds, t \in BreakTypes, ok \in BOOLEAN,
          adm \in Admins :
          Shown(aid, t) /\ ResolveBreak(aid, Owner(aid), t, ok, adm)
    \/ \E aid \in AssignmentIds, adm \in Admins :
          Shown(aid, EDIT) /\ ApproveEdit(aid, Owner(aid), adm)
    \/ \E aid \in AssignmentIds, adm \in Admins :
          Shown(aid, END_EARLY) /\ ApproveEndEarly(aid, Owner(aid), adm)
    \/ \E aid \in AssignmentIds, t \in {EDIT, END_EARLY}, adm \in Admins :
          Shown(aid, t) /\ DenyRequest(t, aid, Owner(aid), adm)

SpecResolve == InitResolve /\ [][NextResolve]_vars

\* The breaks of one operator and their coverage; the operators edit their
\* parameters.
InitCover == InitWith({1, 2}, {1})

NextCover ==
    \/ PostHourly
    \/ \E aid \in AssignmentIds : CanStart(aid) /\ StartTask(aid, Owner(aid))
    \/ \E aid \in AssignmentIds, ch \in {OneChange} :
          /\ CanAct(aid)
          /\ Len(requests) < CoverRequests
          /\ RequestEdit(aid, Owner(aid), ch)
    \/ \E aid \in AssignmentIds :
          /\ FindPendingRequest(requests, aid, Owner(aid), EDIT) # NoId
          /\ ApproveEdit(aid, Owner(aid), "admin1")
    \/ \E aid \in AssignmentIds, k \in BreakKinds :
          /\ CanAct(aid) /\ Owner(aid) = Requester
          /\ Len(requests) < CoverRequests
          /\ RequestBreak(aid, Owner(aid), k[1], k[2])
    \/ \E aid \in AssignmentIds, t \in BreakTypes, ok \in BOOLEAN :
          /\ FindPendingRequest(requests, aid, Owner(aid), t) # NoId
          /\ ResolveBreak(aid, Owner(aid), t, ok, "admin1")
    \/ \E i \in 1..Len(countdowns) : CountdownStart(i)
    \/ \E i \in 1..Len(countdowns) : CountdownFire(i)
    \/ \E aid \in AssignmentIds :
          aid \in DOMAIN break_timers /\ CancelBreak(aid, Owner(aid))
    \/ Tick(BreakMinutes, BreakHorizon)

SpecCover == InitCover /\ [][NextCover]_vars

\* The requests of one operator: edits, early ends and breaks on the
\* assignments of two hours, asked again while one is outstanding, their
\* resolutions and the passes over the queue.
InitReq == InitWith({1, 2}, {1})

NextReq ==
    \/ PostHourly
    \/ \E aid \in AssignmentIds : CanStart(aid) /\ StartTask(aid, Owner(aid))
    \/ \E aid \in AssignmentIds :
          /\ CanAct(aid) /\ Owner(aid) = Requester
          /\ Len(requests) < ReqRequests
          /\ RequestEdit(aid, Owner(aid), OneChange)
    \/ \E aid \in AssignmentIds :
          /\ CanAct(aid) /\ Owner(aid) = Requester
          /\ Len(requests) < ReqRequests
          /\ RequestEndEarly(aid, Owner(aid))
    \/ \E aid \in AssignmentIds, k \in BreakKinds :
          /\ CanAct(aid) /\ Owner(aid) = Requester
          /\ Len(requests) < ReqRequests
          /\ RequestBreak(aid, Owner(aid), k[1], k[2])
    \/ \E aid \in AssignmentIds :
          /\ FindPendingRequest(requests, aid, Owner(aid), EDIT) # NoId
          /\ ApproveEdit(aid, Owner(aid), "admin1")
    \/ \E aid \in AssignmentIds :
          /\ FindPendingRequest(requests, aid, Owner(aid), END_EARLY) # NoId
          /\ ApproveEndEarly(aid, Owner(aid), "admin1")
    \/ \E aid \in AssignmentIds, t \in BreakTypes, ok \in BOOLEAN :
          /\ FindPendingRequest(requests, aid, Owner(aid), t) # NoId
          /\ ResolveBreak(aid, Owner(aid), t, ok, "admin1")
    \/ CheckQueuedBreakRequests
    \/ Tick(HourMinutes, MaxTime)

SpecReq == InitReq /\ [][NextReq]_vars

\* The queue of break requests: three operators under a staffing floor the
\* administrators change, requests made in different minutes, and the
\* passes over the queue.
Askers == Users \ {CHOOSE u \in Users : \A v \in Users : v <= u}

InitQueue == InitWith(Users, {QueueFloor})

NextQueue ==
    \/ PostHourly
    \/ \E aid \in AssignmentIds : CanStart(aid) /\ StartTask(aid, Owner(aid))
    \/ \E aid \in AssignmentIds :
          /\ CanAct(aid) /\ Owner(aid) \in Askers
          /\ CompleteTask(aid, Owner(aid))
    \/ \E aid \in AssignmentIds :
          /\ CanAct(aid) /\ Owner(aid) \in Askers
          /\ Len(requests) < QueueRequests
          /\ RequestBreak(aid, Owner(aid), BREAK15, BreakMinutes)
    \/ \E m \in {MinOnDutyLow - 1, MinOnDutyLow} : SettingsCommand(m)
    \/ CheckQueuedBreakRequests
    \/ Tick(1, QueueHorizon)

SpecQueue == InitQueue /\ [][NextQueue]_vars

\* The running system as AssignmentScheduler.start sets it up: the cron
\* triggers it registers fire (the hourly generation and the minute watch;
\* update_dashboard writes nothing), time passes, and the operators start
\* their tasks and ask for breaks.  Nothing registers or calls
\* check_queued_break_requests, so no step of the system is a pass over the
\* queue.  The scheduler fires a registered trigger whenever it is due.
InitSched == InitWith({1, 2}, {1})

SchedTick == Tick(ReminderFrom, SchedHorizon)

NextSched ==
    \/ PostHourly
    \/ CheckPendingAcks
    \/ \E aid \in AssignmentIds : CanStart(aid) /\ StartTask(aid, Owner(aid))
    \/ \E aid \in AssignmentIds, k \in BreakKinds :
          /\ CanAct(aid)
          /\ Len(requests) < SchedRequests
          /\ RequestBreak(aid, Owner(aid), k[1], k[2])
    \/ SchedTick

SpecSched ==
    /\ InitSched /\ [][NextSched]_vars
    /\ WF_vars(PostHourly) /\ WF_vars(CheckPendingAcks) /\ WF_vars(SchedTick)

\* Breaks across a restart of the process.  A break is approved while its
\* whole length lies inside the horizon; the event loop runs every countdown
\* task it holds, and time passes.
InitCrash == InitWith({1, 2}, {1})

CountdownStep ==
    \E i \in 1..Len(countdowns) : CountdownStart(i) \/ CountdownFire(i)

CrashTick == Tick(BreakMinutes, CrashHorizon)

NextCrash ==
    \/ PostHourly
    \/ \E aid \in AssignmentIds : CanStart(aid) /\ StartTask(aid, Owner(aid))
    \/ \E aid \in AssignmentIds :
          /\ CanAct(aid)
          /\ Len(requests) < CrashRequests
          /\ RequestBreak(aid, Owner(aid), BREAK15, BreakMinutes)
    \/ \E aid \in AssignmentIds, ok \in BOOLEAN :
          /\ FindPendingRequest(requests, aid, Owner(aid), BREAK15) # NoId
          /\ now + BreakMinutes <= CrashHorizon
          /\ ResolveBreak(aid, Owner(aid), BREAK15, ok, "admin1")
    \/ CountdownStep
    \/ Restart
    \/ CrashTick

SpecCrash ==
    /\ InitCrash /\ [][NextCrash]_vars
    /\ WF_vars(CountdownStep) /\ WF_vars(CrashTick)

\* The edits of the parameters of one operator's assignments: any proposal,
\* made again after the one before is resolved.
InitEdit == InitWith({1, 2}, {1})

NextEdit ==
    \/ PostHourly
    \/ \E aid \in AssignmentIds : CanStart(aid) /\ StartTask(aid, Owner(aid))
    \/ \E aid \in AssignmentIds, ch \in ProposedChanges :
          /\ CanAct(aid) /\ Owner(aid) = Requester
          /\ Len(requests) < EditRequests
          /\ RequestEdit(aid, Owner(aid), ch)
    \/ \E aid \in AssignmentIds :
          /\ FindPendingRequest(requests, aid, Owner(aid), EDIT) # NoId
          /\ ApproveEdit(aid, Owner(aid), "admin1")
    \/ \E aid \in AssignmentIds :
          /\ FindPendingRequest(requests, aid, Owner(aid), EDIT) # NoId
          /\ DenyRequest(EDIT, aid, Owner(aid), "admin1")

SpecEdit == InitEdit /\ [][NextEdit]_vars

\* Calls of start by any user on any assignment id, one that does not exist
\* included, in the course of two hours with completions and the watch.
InitStart == InitWith({1, 2}, {1})

StartIds == 1..(Len(assignments) + 1)

NextStart ==
    \/ PostHourly
    \/ \E aid \in StartIds, uid \in Users : StartTask(aid, uid)
    \/ \E aid \in AssignmentIds : CanAct(aid) /\ CompleteTask(aid, Owner(aid))
    \/ CheckPendingAcks
    \/ Tick(HourMinutes \div 2, StartHorizon)

SpecStart == InitStart /\ [][NextStart]_vars

\* Calls of start and complete by any user on any assignment id, one that
\* does not exist included, on assignments in every status: edits, breaks
\* with coverage and early ends are requested, asked again and resolved in
\* between, also after the request was resolved or the assignment ended.
InitComplete == InitWith({1, 2}, {1})

NextComplete ==
    \/ PostHourly
    \/ \E aid \in StartIds, uid \in Users : StartTask(aid, uid)
    \/ \E aid \in StartIds, uid \in Users : CompleteTask(aid, uid)
    \/ \E aid \in AssignmentIds, k \in BreakKinds :
          /\ Owner(aid) = Requester
          /\ Len(requests) < CompleteRequests
          /\ RequestBreak(aid, Owner(aid), k[1], k[2])
    \/ \E aid \in AssignmentIds :
          /\ Owner(aid) = Requester
          /\ Len(requests) < CompleteRequests
          /\ RequestEndEarly(aid, Owner(aid))
    \/ \E aid \in AssignmentIds :
          /\ Owner(aid) = Requester
          /\ Len(requests) < CompleteRequests
          /\ RequestEdit(aid, Owner(aid), OneChange)
    \/ \E aid \in AssignmentIds, t \in BreakTypes, ok \in BOOLEAN :
          /\ Shown(aid, t)
          /\ ResolveBreak(aid, Owner(aid), t, ok, "admin1")
    \/ \E aid \in AssignmentIds :
          /\ FindPendingRequest(requests, aid, Owner(aid), END_EARLY) # NoId
          /\ ApproveEndEarly(aid, Owner(aid), "admin1")

SpecComplete == InitComplete /\ [][NextComplete]_vars

\* The approval of breaks of any operator, on the comms-lead task and on
\* the default task, after edits that gave the assignments parameters.
InitTake == InitWith(Users, {1})

NextTake ==
    \/ PostHourly
    \/ \E aid \in AssignmentIds : CanStart(aid) /\ StartTask(aid, Owner(aid))
    \/ \E aid \in AssignmentIds :
          /\ CanAct(aid)
          /\ Len(requests) < TakeRequests
          /\ RequestEdit(aid, Owner(aid), OneChange)
    \/ \E aid \in AssignmentIds :
          /\ FindPendingRequest(requests, aid, Owner(aid), EDIT) # NoId
          /\ ApproveEdit(aid, Owner(aid), "admin1")
    \/ \E aid \in AssignmentIds, k \in BreakKinds :
          /\ CanAct(aid)
          /\ Len(requests) < TakeRequests
          /\ RequestBreak(aid, Owner(aid), k[1], k[2])
    \/ \E aid \in AssignmentIds, t \in BreakTypes :
          /\ FindPendingRequest(requests, aid, Owner(aid), t) # NoId
          /\ ResolveBreak(aid, Owner(aid), t, TRUE, "admin1")

SpecTake == InitTake /\ [][NextTake]_vars

\* ------------------------------------------------------ scheduler triggers
\* The ids of the three jobs AssignmentScheduler.start registers.
JobIds == {"hourly_assignments", "check_reminders", "update_dashboard"}

\* AssignmentScheduler.__init__: a scheduler of its own, no job running.
NewScheduler == [j \in JobIds |-> 0]

\* on_ready, which the gateway client calls at the first connection and
\* again whenever a session could not be resumed: it builds a new
\* AssignmentScheduler and starts it.  The guard of start reads the running
\* flag of the new object, which is False; the scheduler of the previous
\* call is neither stopped nor reused and keeps firing its jobs.
OnReady ==
    /\ schedulers' = Append(schedulers, NewScheduler)
    /\ last' = ResultX("on_ready", TRUE, NoId, NoUser, "ok",
                       Len(schedulers) + 1, <<>>)
    /\ UNCHANGED <<now, users, shifts, settings, assignments, requests,
                   audit, break_timers, countdowns, preCoverage>>

\* The cron trigger of job j is due: minute 0 of the hour for the hourly
\* generation, every minute for the two others.
JobDue(j) == j = "hourly_assignments" => now % HourMinutes = 0

\* The trigger of job j of scheduler s fires.  The job was added with
\* max_instances=1: the executor of s runs it unless max_instances
\* executions of it are still running, and skips the firing otherwise.
JobFire(s, j) ==
    /\ JobDue(j)
    /\ IF schedulers[s][j] >= max_instances
       THEN /\ last' = ResultX("job_fire", FALSE, NoId, NoUser, j, s, <<>>)
            /\ UNCHANGED schedulers
       ELSE /\ schedulers' = [schedulers EXCEPT ![s][j] = @ + 1]
            /\ last' = ResultX("job_fire", TRUE, NoId, NoUser, j, s, <<>>)
    /\ UNCHANGED <<now, users, shifts, settings, assignments, requests,
                   audit, break_timers, countdowns, preCoverage>>

\* update_dashboard of the scheduler: the body is a placeholder.
update_dashboard ==
    /\ last' = Result("update_dashboard", TRUE, NoId, NoUser, "ok")
    /\ UNCHANGED <<now, users, shifts, settings, assignments, requests,
                   audit, break_timers, countdowns, preCoverage>>

\* A running execution of job j of scheduler s does its work and returns.
JobDone(s, j) ==
    /\ schedulers[s][j] > 0
    /\ schedulers' = [schedulers EXCEPT ![s][j] = @ - 1]
    /\ CASE j = "hourly_assignments" -> post_hourly_assignments
         [] j = "check_reminders" -> check_pending_acknowledgments
         [] j = "update_dashboard" -> update_dashboard

InitTrig == InitWith({1, 2}, {1})

TrigTick == Tick(HourMinutes, TrigHorizon)

NextTrig ==
    \/ Len(schedulers) < MaxReady /\ OnReady
    \/ \E s \in DOMAIN schedulers, j \in JobIds : JobFire(s, j)
    \/ \E s \in DOMAIN schedulers, j \in JobIds : JobDone(s, j)
    \/ TrigTick

SpecTrig == InitTrig /\ [][NextTrig]_vars

\* ------------------------------------------------- selection of the lead
\* The values of users.last_comms_lead_at the selection is applied to.
LeadTimes == {NoTime, 0, HourMinutes}

\* The operator lists the selection is applied to.
OperatorLists == UNION {[1..n -> Users] : n \in 0..MaxOps}

\* The sort key of select_comms_lead without the user id.
LeadSortKey_noid(ts, id) == <<IF ts = NoTime THEN datetime_min ELSE ts, 0>>

\* The sort key of select_comms_lead, lines 46-49: a missing timestamp is
\* replaced by datetime.min, then the user id.
LeadSortKey(ts, id) == <<IF ts = NoTime THEN datetime_min ELSE ts, id>>

\* The order of Python on two-element tuples.
TupleLess(a, b) == a[1] < b[1] \/ (a[1] = b[1] /\ a[2] < b[2])

\* sorted() is stable: u goes behind the elements whose key is not greater.
RECURSIVE InsertOperator(_, _)
InsertOperator(u, sorted) ==
    IF sorted = <<>> THEN <<u>>
    ELSE LET h == Head(sorted)
         IN IF TupleLess(LeadSortKey(users[u].last_comms_lead_at, u),
                         LeadSortKey(users[h].last_comms_lead_at, h))
            THEN <<u>> \o sorted
            ELSE <<h>> \o InsertOperator(u, Tail(sorted))

RECURSIVE sorted_operators(_)
sorted_operators(operators) ==
    IF operators = <<>> THEN <<>>
    ELSE InsertOperator(operators[Len(operators)],
             sorted_operators(SubSeq(operators, 1, Len(operators) - 1)))

\* SelectionService.select_comms_lead on a list of users.
select_comms_lead_list(operators) ==
    IF operators = <<>> THEN NoUser
    ELSE IF Len(operators) = 1 THEN operators[1]
    ELSE sorted_operators(operators)[1]

\* A call of select_comms_lead; the list and the result are kept in last.
SelectCommsLead(operators) ==
    /\ last' = ResultX("select_comms_lead", TRUE, NoId,
                       select_comms_lead_list(operators), "ok",
                       Len(operators), operators)
    /\ UNCHANGED <<now, users, shifts, settings, assignments, requests,
                   audit, break_timers, countdowns, preCoverage, schedulers>>

InitLead ==
    /\ now = 0
    /\ users \in [Users -> [is_operator : {TRUE},
                            last_comms_lead_at : LeadTimes]]
    /\ shifts = [u \in Users |-> [id |-> u, start_at |-> 0,
                                  end_at |-> NoTime]]
    /\ settings = [min_on_duty |-> 1]
    /\ assignments = <<>>
    /\ requests = <<>>
    /\ audit = [k \in {} |-> 0]
    /\ break_timers = [a \in {} |-> 0]
    /\ countdowns = <<>>
    /\ preCoverage = [a \in {} |-> 0]
    /\ schedulers = <<>>
    /\ last = Result("init", TRUE, NoId, NoUser, "ok")

NextLead == \E operators \in OperatorLists : SelectCommsLead(operators)

SpecLead == InitLead /\ [][NextLead]_vars

\* ------------------------------------------------- selection of the task
\* The task_templates rows the selection is applied to.
Templates ==
    [is_active : BOOLEAN, priority : 1..2,
     window_start : {NoTime, 1}, window_end : {NoTime, 1},
     created_at : 0..1]

TemplateLists == UNION {[1..n -> Templates] : n \in 0..MaxPool}

\* The values of current_time: before, inside and after a window at 1.
PoolTimes == 0..2

\* A window test that ignores the windows.
TemplateInWindow_open(template, current_time) == TRUE

\* The window test of select_task_from_pool, lines 95-104.
TemplateInWindow(template, current_time) ==
    IF template.window_start # NoTime /\ current_time < template.window_start
    THEN FALSE
    ELSE IF template.window_end # NoTime /\ current_time > template.window_end
    THEN FALSE
    ELSE TRUE

\* The loop of lines 90-111 from template i on: one candidate for every
\* active template, in the order of the list; template holds the index.
RECURSIVE PoolCandidates(_, _, _)
PoolCandidates(templates, current_time, i) ==
    IF i > Len(templates) THEN <<>>
    ELSE IF ~templates[i].is_active
    THEN PoolCandidates(templates, current_time, i + 1)
    ELSE <<[template |-> i,
            priority |-> templates[i].priority,
            in_window |-> TemplateInWindow(templates[i], current_time),
            created_at |-> templates[i].created_at]>>
         \o PoolCandidates(templates, current_time, i + 1)

\* The sort key of lines 117-121; False sorts before True.
CandidateKey(c) == <<c.priority, IF c.in_window THEN 0 ELSE 1, c.created_at>>

\* The order of Python on three-element tuples.
TripleLess(a, b) ==
    \/ a[1] < b[1]
    \/ a[1] = b[1] /\ a[2] < b[2]
    \/ a[1] = b[1] /\ a[2] = b[2] /\ a[3] < b[3]

\* list.sort is stable: c goes behind the elements whose key is not greater.
RECURSIVE InsertCandidate(_, _)
InsertCandidate(c, sorted) ==
    IF sorted = <<>> THEN <<c>>
    ELSE IF TripleLess(CandidateKey(c), CandidateKey(Head(sorted)))
    THEN <<c>> \o sorted
    ELSE <<Head(sorted)>> \o InsertCandidate(c, Tail(sorted))

RECURSIVE SortCandidates(_)
SortCandidates(candidates) ==
    IF candidates = <<>> THEN <<>>
    ELSE InsertCandidate(candidates[Len(candidates)],
             SortCandidates(SubSeq(candidates, 1, Len(candidates) - 1)))

\* SelectionService.select_task_from_pool: the index of the template it
\* returns, NoId for None.
select_task_from_pool(templates, current_time) ==
    IF templates = <<>> THEN NoId
    ELSE LET candidates == PoolCandidates(templates, current_time, 1)
         IN IF candidates = <<>> THEN NoId
            ELSE SortCandidates(candidates)[1].template

\* A call of select_task_from_pool on the list and the time kept in last.
SelectTaskFromPool ==
    /\ last.op = "pool"
    /\ last' = ResultX("select_task_from_pool", TRUE,
                       select_task_from_pool(last.esc, last.n), NoUser, "ok",
                       last.n, last.esc)
    /\ UNCHANGED <<now, users, shifts, settings, assignments, requests,
                   audit, break_timers, countdowns, preCoverage, schedulers>>

InitPool ==
    /\ now = 0
    /\ users = [u \in Users |-> [is_operator |-> TRUE,
                                 last_comms_lead_at |-> NoTime]]
    /\ shifts = [u \in Users |-> [id |-> u, start_at |-> 0,
                                  end_at |-> NoTime]]
    /\ settings = [min_on_duty |-> 1]
    /\ assignments = <<>>
    /\ requests = <<>>
    /\ audit = [k \in {} |-> 0]
    /\ break_timers = [a \in {} |-> 0]
    /\ countdowns = <<>>
    /\ preCoverage = [a \in {} |-> 0]
    /\ schedulers = <<>>
    /\ \E templates \in TemplateLists, current_time \in PoolTimes :
          last = ResultX("pool", TRUE, NoId, NoUser, "ok",
                         current_time, templates)

NextPool == SelectTaskFromPool

SpecPool == InitPool /\ [][NextPool]_vars

\* ------------------------------------------------------------ hour index
\* The shift starts and the clock values the hour index is computed for:
\* times before the start, inside the nine hours and after them.
ShiftStarts == {0, HourMinutes \div 2, 2 * HourMinutes}

\* A call of calculate_hour_index for the shift of user u at the time now.
CalculateHourIndex(u) ==
    /\ last.op = "init"
    /\ last' = ResultX("calculate_hour_index", TRUE, NoId, u, "ok",
                       calculate_hour_index(shifts[u].start_at, now), <<>>)
    /\ UNCHANGED <<now, users, shifts, settings, assignments, requests,
                   audit, break_timers, countdowns, preCoverage, schedulers>>

InitHour ==
    /\ now \in 0..HourHorizon
    /\ users = [u \in Users |-> [is_operator |-> TRUE,
                                 last_comms_lead_at |-> NoTime]]
    /\ \E start \in ShiftStarts :
          shifts = [u \in Users |-> [id |-> u, start_at |-> start,
                                     end_at |-> NoTime]]
    /\ settings = [min_on_duty |-> 1]
    /\ assignments = <<>>
    /\ requests = <<>>
    /\ audit = [k \in {} |-> 0]
    /\ break_timers = [a \in {} |-> 0]
    /\ countdowns = <<>>
    /\ preCoverage = [a \in {} |-> 0]
    /\ schedulers = <<>>
    /\ last = Result("init", TRUE, NoId, NoUser, "ok")

NextHour == \E u \in {Requester} : CalculateHourIndex(u)

SpecHour == InitHour /\ [][NextHour]_vars

\* --------------------------------------------------- operators on shift
\* A shift row for user u is inserted from outside (the program itself
\* writes no shifts row): u has an active shift starting now and is found
\* by the query of get_on_shift_operators from now on.
ComeOnShift(u) ==
    /\ shifts[u].end_at # NoTime
    /\ shifts' = [shifts EXCEPT ![u] =
                     [id |-> shifts[u].id + Cardinality(Users),
                      start_at |-> now, end_at |-> NoTime]]
    /\ last' = Result("come_on_shift", TRUE, NoId, u, "ok")
    /\ UNCHANGED <<now, users, settings, assignments, requests, audit,
                   break_timers, countdowns, preCoverage, schedulers>>

\* Two operators are on shift at the start; the third comes later.
NextShift ==
    \/ PostHourly
    \/ \E u \in Users : ComeOnShift(u)
    \/ \E aid \in AssignmentIds : CanStart(aid) /\ StartTask(aid, Owner(aid))
    \/ \E aid \in AssignmentIds :
          CanAct(aid) /\ CompleteTask(aid, Owner(aid))
    \/ Tick(HourMinutes, MaxTime)

SpecShift == InitWith(Users \ {Requester}, {1}) /\ [][NextShift]_vars

\* ------------------------------------------------------ cancelled breaks
\* A countdown task runs up to its sleep as soon as the handler that created
\* it suspends, before the event loop dispatches another interaction: the
\* other handlers find every countdown task registered.
NextCancel ==
    \/ PostHourly
    \/ \E aid \in AssignmentIds : CanStart(aid) /\ StartTask(aid, Owner(aid))
    \/ \E aid \in AssignmentIds :
          /\ CanAct(aid)
          /\ Len(requests) < CrashRequests
          /\ \/ RequestBreak(aid, Owner(aid), BREAK15, BreakMinutes)
             \/ RequestEndEarly(aid, Owner(aid))
    \/ \E aid \in AssignmentIds :
          /\ FindPendingRequest(requests, aid, Owner(aid), BREAK15) # NoId
          /\ \A i \in 1..Len(countdowns) : countdowns[i].pc # "created"
          /\ ResolveBreak(aid, Owner(aid), BREAK15, TRUE, "admin1")
    \/ \E aid \in AssignmentIds :
          /\ FindPendingRequest(requests, aid, Owner(aid), END_EARLY) # NoId
          /\ \A i \in 1..Len(countdowns) : countdowns[i].pc # "created"
          /\ ApproveEndEarly(aid, Owner(aid), "admin1")
    \/ CountdownStep
    \/ \E aid \in AssignmentIds, uid \in Users :
          /\ \A i \in 1..Len(countdowns) : countdowns[i].pc # "created"
          /\ CancelBreak(aid, uid)
    \/ (\A i \in 1..Len(countdowns) : countdowns[i].pc # "created") /\ Restart
    \/ CrashTick

SpecCancel == InitWith({1, 2}, {1}) /\ [][NextCancel]_vars

\* ------------------------------------------------------------------ claims

SameSlot(a, b) ==
    /\ assignments[a].user_id = assignments[b].user_id
    /\ assignments[a].shift_id = assignments[b].shift_id
    /\ assignments[a].hour_index = assignments[b].hour_index

\* C1: in every reachable state there is at most one assignment for each
\* (user_id, shift_id, hour_index) triple.
Thm_C1 == \A a, b \in AssignmentIds : SameSlot(a, b) => a = b

\* C1 is exercised once the generation has run for two hours and a break
\* has been approved in between.
Witness_C1 ==
    /\ \E a \in AssignmentIds : assignments[a].hour_index = 2
    /\ \E r \in RequestIds : requests[r].status = APPROVED
    /\ last.op = "post_hourly"

\* Every on-shift operator already has an assignment for the current hour.
AllAssigned ==
    \A u \in get_on_shift_operators :
        \E a \in AssignmentIds :
            /\ assignments[a].user_id = u
            /\ assignments[a].shift_id = shifts[u].id
            /\ assignments[a].hour_index =
                   calculate_hour_index(shifts[u].start_at, now)

\* C6: a generation run in an hour whose on-shift operators all have their
\* assignment creates no assignment and leaves every existing assignment,
\* and the audit log, unchanged.
Thm_C6 ==
    [][(PostHourly /\ get_on_shift_operators # {} /\ AllAssigned)
          => (assignments' = assignments /\ audit' = audit)]_vars

\* C6 is exercised when a run that created nothing follows a run that
\* created the hour's assignments.
Witness_C6 ==
    /\ last.op = "post_hourly"
    /\ last.n = 0
    /\ assignments # <<>>
    /\ AllAssigned

\* The two writes of a reassignment of the assignment o to the row c.
OriginalEnded(o) ==
    assignments[o].status = ENDED_EARLY /\ assignments[o].ended_at # NoTime

CandidateConverted(o, c) ==
    /\ c # NoId
    /\ assignments[c].task_name = assignments[o].task_name
    /\ assignments[c].covering_for_user_id = assignments[o].user_id

OnDuty(asg, h) ==
    Cardinality({a \in 1..Len(asg) :
        asg[a].hour_index = h /\ asg[a].status \in ActiveStatuses})

\* C3: the approval of a break never leaves fewer than min_on_duty
\* assignments ACTIVE or COVERING in the hour index of the break.
Claim_C3 ==
    [][\A aid \in AssignmentIds, t \in BreakTypes :
          (/\ ResolveBreak(aid, Owner(aid), t, TRUE, "admin1")
           /\ last'.info = "approved")
          => OnDuty(assignments', assignments[aid].hour_index)
                 >= settings.min_on_duty]_vars

\* The assignment o is one the watch escalates now.
Escalated(o) ==
    /\ assignments[o].status = PENDING_ACK
    /\ assignments[o].task_name # DataLabelling
    /\ now - assignments[o].created_at >= EscalationAge

\* The rows of the other users ACTIVE on the default task in the hour of o.
DefaultTaskRows(o) ==
    {c \in AssignmentIds :
        /\ assignments[c].hour_index = assignments[o].hour_index
        /\ assignments[c].user_id # assignments[o].user_id
        /\ assignments[c].status = ACTIVE
        /\ assignments[c].task_name = DataLabelling}

\* C4: a watch pass that escalates a PENDING_ACK assignment of a non-default
\* task, aged at least 10 minutes, with exactly one other user ACTIVE on the
\* default task in the hour, leaves the original ENDED_EARLY, the candidate
\* COVERING for the original user, and exactly one assignment_escalated
\* audit entry for the original.
Claim_C4 ==
    [][\A o \in AssignmentIds :
          (/\ CheckPendingAcks
           /\ Escalated(o)
           /\ Cardinality(DefaultTaskRows(o)) = 1)
          => /\ assignments'[o].status = ENDED_EARLY
             /\ \A c \in DefaultTaskRows(o) :
                   /\ assignments'[c].status = COVERING
                   /\ assignments'[c].covering_for_user_id
                          = assignments[o].user_id
             /\ AuditCount(audit', "assignment_escalated", o) = 1]_vars

\* The resume of the break on aid runs with the coverage reference cid:
\* the countdown of the break fires, or the owner cancels the break.
ResumeRuns(aid, cid) ==
    \/ \E i \in 1..Len(countdowns) :
          /\ countdowns[i].assignment_id = aid
          /\ countdowns[i].coverage_assignment = cid
          /\ CountdownFire(i)
    \/ /\ aid \in DOMAIN break_timers
       /\ break_timers[aid].coverage_assignment = cid
       /\ CancelBreak(aid, Owner(aid))

Paused(aid) == assignments[aid].status \in PausedStatuses

\* C7: the cancellation of a break in progress leaves the assignment ACTIVE
\* and its coverage assignment on the default task, and the countdown of a
\* cancelled break changes no assignment and no timer when it fires.
Claim_C7 ==
    [][/\ \A aid \in AssignmentIds :
             (/\ aid \in DOMAIN break_timers
              /\ Paused(aid)
              /\ CancelBreak(aid, Owner(aid)))
             => /\ assignments'[aid].status = ACTIVE
                /\ LET cid == break_timers[aid].coverage_assignment
                   IN cid # NoId =>
                         assignments'[cid].task_name = DataLabelling
       /\ \A i \in 1..Len(countdowns) :
             (countdowns[i].cancelled /\ CountdownFire(i))
             => UNCHANGED <<assignments, break_timers>>]_vars

\* C8: a resume that finds the assignment paused makes it ACTIVE and puts
\* the coverage assignment of the break back on the default task with
\* covering_for_user_id cleared; a resume that finds the assignment out of
\* the paused state changes no assignment.
Claim_C8 ==
    [][\A aid \in AssignmentIds, cid \in AssignmentIds \cup {NoId} :
          ResumeRuns(aid, cid)
          => IF Paused(aid)
             THEN /\ assignments'[aid].status = ACTIVE
                  /\ cid # NoId =>
                        /\ assignments'[cid].task_name = DataLabelling
                        /\ assignments'[cid].covering_for_user_id = NoUser
             ELSE assignments' = assignments]_vars

SameWork(a, b) ==
    /\ a.task_name = b.task_name
    /\ a.template_id = b.template_id
    /\ a.params = b.params
    /\ a.status = b.status
    /\ a.covering_for_user_id = b.covering_for_user_id

\* C9: the resume of a break restores the coverage assignment to the task
\* name, template, parameters, status and covering_for_user_id it had
\* before the coverage was set up.
Claim_C9 ==
    [][\A aid \in AssignmentIds, cid \in AssignmentIds :
          (ResumeRuns(aid, cid) /\ Paused(aid) /\ cid \in DOMAIN preCoverage)
          => SameWork(assignments'[cid], preCoverage[cid])]_vars

\* The ACTIVE or COVERING assignments of the hour of aid, its owner's
\* excluded, are fewer than min_on_duty.
BelowFloor(aid) ==
    Cardinality({a \in AssignmentIds :
        /\ assignments[a].hour_index = assignments[aid].hour_index
        /\ assignments[a].status \in ActiveStatuses
        /\ assignments[a].user_id # assignments[aid].user_id})
      < settings.min_on_duty

\* The user has a break or lunch request that is PENDING or queued.
OpenBreakRequest(uid) ==
    \E r \in RequestIds :
        /\ requests[r].user_id = uid
        /\ requests[r].type \in BreakTypes
        /\ requests[r].status \in {PENDING, QUEUED_FOR_CAPACITY}

\* The outcome of a request_break that creates a request of the status.
Created(aid, status) ==
    /\ last'.ok
    /\ Len(requests') = Len(requests) + 1
    /\ requests'[Len(requests')].assignment_id = aid
    /\ requests'[Len(requests')].status = status
    /\ assignments' = assignments

\* C10 as stated: a request_break by the owner of an ACTIVE or COVERING
\* assignment creates a QUEUED_FOR_CAPACITY request when the staffing without
\* the requester is below min_on_duty and a PENDING request otherwise,
\* returns success and leaves the assignment unchanged.
Claim_C10 ==
    [][\A aid \in AssignmentIds, k \in BreakKinds :
          (CanAct(aid) /\ RequestBreak(aid, Owner(aid), k[1], k[2]))
          => Created(aid, IF BelowFloor(aid) THEN QUEUED_FOR_CAPACITY
                          ELSE PENDING)]_vars

\* C10 amended: the same, for a requester who has no PENDING or queued break
\* or lunch request; with one, the call fails and creates nothing.
Thm_C10 ==
    [][\A aid \in AssignmentIds, k \in BreakKinds :
          (CanAct(aid) /\ RequestBreak(aid, Owner(aid), k[1], k[2]))
          => IF OpenBreakRequest(Owner(aid))
             THEN ~last'.ok /\ requests' = requests
                            /\ assignments' = assignments
             ELSE Created(aid, IF BelowFloor(aid) THEN QUEUED_FOR_CAPACITY
                               ELSE PENDING)]_vars

\* C10 is exercised when a request has been queued for capacity after an
\* earlier one was created PENDING and approved.
Witness_C10 ==
    /\ last.op = "request_break"
    /\ last.info = "queued"
    /\ \E r \in RequestIds : requests[r].status = APPROVED

\* The PENDING requests of the type on the assignment by its owner.
PendingFor(aid, type) ==
    {r \in RequestIds :
        /\ requests[r].assignment_id = aid
        /\ requests[r].user_id = Owner(aid)
        /\ requests[r].type = type
        /\ requests[r].status = PENDING}

\* The step is one resolution attempt by the admin on the request of the
\* type on aid.
Attempt(aid, type, approved, adm) ==
    /\ last'.aid = aid
    /\ last'.op = (IF type \in BreakTypes THEN "resolve_break"
                   ELSE IF type = EDIT THEN "resolve_edit"
                   ELSE "resolve_end_early")
    /\ IF type \in BreakTypes
       THEN ResolveBreak(aid, Owner(aid), type, approved, adm)
       ELSE IF ~approved THEN DenyRequest(type, aid, Owner(aid), adm)
       ELSE IF type = EDIT THEN ApproveEdit(aid, Owner(aid), adm)
       ELSE ApproveEndEarly(aid, Owner(aid), adm)

\* The attempt succeeded: the request it found is resolved by the admin.
Succeeds(aid, type, approved, adm) ==
    /\ last'.ok
    /\ \A r \in PendingFor(aid, type) :
          /\ requests'[r].status = (IF approved THEN APPROVED ELSE DENIED)
          /\ requests'[r].resolver_id = adm

\* The attempt failed as already resolved and changed nothing.
FailsResolved ==
    /\ ~last'.ok
    /\ last'.info = "already_resolved"
    /\ requests' = requests
    /\ assignments' = assignments

RequestTypes == {EDIT, END_EARLY, BREAK15, LUNCH60}

StaleBreakApproval(aid, type, approved) ==
    type \in BreakTypes /\ approved /\ ~CanAct(aid)

Outstanding(r) == requests[r].status \in {PENDING, QUEUED_FOR_CAPACITY}

\* C11: in every reachable state at most one request in status PENDING or
\* QUEUED_FOR_CAPACITY exists for each (user, assignment, type).
Thm_C11 ==
    \A r, q \in RequestIds :
        /\ Outstanding(r) /\ Outstanding(q)
        /\ requests[r].user_id = requests[q].user_id
        /\ requests[r].assignment_id = requests[q].assignment_id
        /\ requests[r].type = requests[q].type
        => r = q

\* C11 is exercised when an edit is asked for again while the first
\* request for it is pending.
Witness_C11 ==
    /\ last.op = "request_edit" /\ last.info = "duplicate"
    /\ \E r \in RequestIds :
          /\ requests[r].assignment_id = last.aid
          /\ requests[r].type = EDIT
          /\ requests[r].status = PENDING

OutstandingBreaks(u) ==
    {r \in RequestIds : /\ requests[r].user_id = u
                        /\ requests[r].type \in BreakTypes
                        /\ Outstanding(r)}

\* C12: no user ever has more than one break request (BREAK15 or LUNCH60)
\* in status PENDING or QUEUED_FOR_CAPACITY, whatever the assignments.
Thm_C12 == \A u \in Users : Cardinality(OutstandingBreaks(u)) <= 1

\* C12 is exercised when a break is asked for on one assignment while a
\* break request of the user on another assignment is queued.
Witness_C12 ==
    /\ last.op = "request_break" /\ last.info = "duplicate"
    /\ \E r \in OutstandingBreaks(last.uid) :
          /\ requests[r].assignment_id # last.aid
          /\ requests[r].status = QUEUED_FOR_CAPACITY

PastReminder(a) ==
    /\ assignments[a].status = PENDING_ACK
    /\ now - assignments[a].created_at >= ReminderUntil

\* C13: every assignment that is PENDING_ACK past the reminder window has
\* received exactly one acknowledgment reminder, however the firings of the
\* minute trigger fall.
Claim_C13 ==
    \A a \in AssignmentIds :
        PastReminder(a)
        => AuditCount(audit, "acknowledgment_reminder_sent", a) = 1

\* A queued break request on a missing or inactive assignment.
StaleQueued(r) ==
    /\ requests[r].status = QUEUED_FOR_CAPACITY
    /\ requests[r].type \in BreakTypes
    /\ \/ requests[r].assignment_id \notin AssignmentIds
       \/ assignments[requests[r].assignment_id].status \notin ActiveStatuses

\* A queued break request on an active assignment whose break the staffing
\* floor allows now.
Eligible(r) ==
    /\ requests[r].status = QUEUED_FOR_CAPACITY
    /\ requests[r].type \in BreakTypes
    /\ requests[r].assignment_id \in AssignmentIds
    /\ LET a == assignments[requests[r].assignment_id]
       IN /\ a.status \in ActiveStatuses
          /\ Cardinality({i \in AssignmentIds :
                 /\ assignments[i].hour_index = a.hour_index
                 /\ assignments[i].status \in ActiveStatuses
                 /\ assignments[i].user_id # requests[r].user_id})
                >= settings.min_on_duty

Promoted ==
    {r \in RequestIds : /\ requests[r].status = QUEUED_FOR_CAPACITY
                        /\ requests'[r].status = PENDING}

\* C14: a pass over the queue promotes at most one request to PENDING, and
\* the promoted request is the oldest of the queued break requests on an
\* active assignment that the staffing floor allows at that moment.
Thm_C14 ==
    [][(last'.op = "check_queued" /\ CheckQueuedBreakRequests)
       => /\ Cardinality(Promoted) <= 1
          /\ \A r \in Promoted :
                /\ Eligible(r)
                /\ \A q \in RequestIds :
                      Eligible(q)
                      => requests[r].requested_at <= requests[q].requested_at
          /\ (\E q \in RequestIds : Eligible(q)) => Promoted # {}]_vars

\* C14 is exercised by a pass that had two requests of different minutes to
\* choose from and has promoted the older one.
Witness_C14 ==
    /\ last.op = "check_queued" /\ last.n # NoId
    /\ requests[last.n].status = PENDING
    /\ \E q \in RequestIds :
          /\ requests[q].status = QUEUED_FOR_CAPACITY
          /\ requests[q].requested_at > requests[last.n].requested_at
          /\ Eligible(q)

\* C15: after a pass over the queue no request is QUEUED_FOR_CAPACITY on an
\* assignment that is missing or not ACTIVE/COVERING.
Claim_C15 ==
    last.op = "check_queued" => \A r \in RequestIds : ~StaleQueued(r)

\* No step of the running system takes a request out of the queue: the
\* reason why the length of the run does not matter for C16.
QueueIsFinal ==
    [][\A r \in RequestIds :
          requests[r].status = QUEUED_FOR_CAPACITY
          => requests'[r].status = QUEUED_FOR_CAPACITY]_vars

\* C16: under fair firing of the registered triggers, a queued break request
\* that from some moment on stays on an active assignment with the staffing
\* floor satisfied is eventually promoted to PENDING.
Claim_C16 ==
    \A r \in 1..SchedRequests :
        <>[](r \in RequestIds /\ Eligible(r))
        => <>(r \in RequestIds /\ requests[r].status = PENDING
              /\ AuditCount(audit, "break_request_unqueued",
                            requests[r].assignment_id) > 0)

\* The ids of the rows one hourly generation creates.
HourRows == 1..Cardinality(Users)

\* A paused assignment for which the process holds no countdown task stays
\* paused in every step: the reason why the length of the run does not
\* matter for C17.
PausedWithoutTaskIsFinal ==
    [][\A a \in AssignmentIds :
          (/\ Paused(a)
           /\ \A i \in 1..Len(countdowns) : countdowns[i].assignment_id # a)
          => /\ assignments'[a].status = assignments[a].status
             /\ \A i \in 1..Len(countdowns') :
                   countdowns'[i].assignment_id # a]_vars

\* C17: every assignment that is paused for a break leaves the paused state
\* later, also when the process is restarted during the break.
Claim_C17 ==
    \A a \in HourRows :
        (a \in AssignmentIds /\ Paused(a))
        ~> (a \in AssignmentIds /\ ~Paused(a))

EndEarlyApproved(aid) ==
    /\ last'.op = "resolve_end_early" /\ last'.info = "approved"
    /\ last'.aid = aid
    /\ \E adm \in Admins : ApproveEndEarly(aid, Owner(aid), adm)

EditApproved(aid, r) ==
    /\ last'.op = "resolve_edit" /\ last'.info = "approved"
    /\ last'.aid = aid
    /\ r = FindPendingRequest(requests, aid, Owner(aid), EDIT)
    /\ \E adm \in Admins : ApproveEdit(aid, Owner(aid), adm)

\* C19: the approval of a PENDING EDIT request stores the parameters of the
\* assignment overridden by the proposed changes (a proposed key has the
\* proposed value, any other key its old value) and leaves the status and
\* the task of the assignment as they are.
Claim_C19 ==
    [][\A aid \in AssignmentIds, r \in RequestIds :
          EditApproved(aid, r)
          => /\ \A k \in ParamKeys :
                   assignments'[aid].params[k] =
                       IF requests[r].proposed_changes[k] # NoVal
                       THEN requests[r].proposed_changes[k]
                       ELSE assignments[aid].params[k]
             /\ assignments'[aid].status = assignments[aid].status
             /\ assignments'[aid].task_name = assignments[aid].task_name]_vars

StartCalled(aid, uid) ==
    /\ last'.op = "start" /\ last'.aid = aid /\ last'.uid = uid
    /\ StartTask(aid, uid)

Startable(aid, uid) ==
    /\ aid \in AssignmentIds
    /\ assignments[aid].user_id = uid
    /\ assignments[aid].status = PENDING_ACK

\* C20: start(assignment_id, user_id) succeeds exactly when the assignment
\* exists, belongs to the user and is PENDING_ACK; a successful start makes
\* it ACTIVE, stamps started_at and sets ends_at to the next hour boundary
\* only where it was unset; a failed start changes no assignment.
Thm_C20 ==
    [][\A aid \in StartIds, uid \in Users :
          StartCalled(aid, uid)
          => /\ last'.ok <=> Startable(aid, uid)
             /\ Startable(aid, uid)
                => /\ assignments'[aid].status = ACTIVE
                   /\ assignments'[aid].started_at = now
                   /\ assignments'[aid].ends_at =
                         IF assignments[aid].ends_at = NoTime
                         THEN now - (now % HourMinutes) + HourMinutes
                         ELSE assignments[aid].ends_at
                   /\ \A b \in AssignmentIds \ {aid} :
                         assignments'[b] = assignments[b]
             /\ ~Startable(aid, uid) => assignments' = assignments]_vars

\* C20 is exercised by a start at the end of the hour: the assignment keeps
\* the end time it was created with, which is not the next hour boundary.
Witness_C20 ==
    /\ last.op = "start" /\ last.ok
    /\ assignments[last.aid].status = ACTIVE
    /\ assignments[last.aid].started_at = now
    /\ assignments[last.aid].ends_at # NoTime
    /\ assignments[last.aid].ends_at # NextHourBoundary(now)

CompleteCalled(aid, uid) ==
    /\ last'.op = "complete" /\ last'.aid = aid /\ last'.uid = uid
    /\ CompleteTask(aid, uid)

CanComplete(aid, uid) ==
    /\ aid \in AssignmentIds
    /\ assignments[aid].user_id = uid
    /\ assignments[aid].status \in {ACTIVE, COVERING}

\* C21: complete(assignment_id, user_id) succeeds exactly when the
\* assignment exists, belongs to the user and is ACTIVE or COVERING; a
\* successful call makes it COMPLETED and stamps ended_at; a call on an
\* assignment in any other status fails and changes no assignment.
Thm_C21 ==
    [][\A aid \in StartIds, uid \in Users :
          CompleteCalled(aid, uid)
          => /\ last'.ok <=> CanComplete(aid, uid)
             /\ CanComplete(aid, uid)
                => /\ assignments'[aid].status = COMPLETED
                   /\ assignments'[aid].ended_at = now
                   /\ \A b \in AssignmentIds \ {aid} :
                         assignments'[b] = assignments[b]
             /\ ~CanComplete(aid, uid) => assignments' = assignments]_vars

\* C21 is exercised when the owner's call on a paused assignment has been
\* refused and a COVERING assignment has been completed.
Witness_C21 ==
    /\ last.op = "complete" /\ ~last.ok /\ last.info = "invalid_state"
    /\ last.aid \in AssignmentIds
    /\ assignments[last.aid].status \in PausedStatuses
    /\ assignments[last.aid].user_id = last.uid
    /\ \E c \in AssignmentIds :
          /\ assignments[c].status = COMPLETED
          /\ assignments[c].covering_for_user_id # NoUser

LifecycleOps ==
    {"start", "complete", "request_edit", "request_end_early",
     "request_break", "resolve_break"}

\* C22: a lifecycle operation that fails (start, complete, request_edit,
\* request_end_early, request_break, resolve_break_request, the approval of
\* a break on an assignment that is no longer ACTIVE/COVERING included)
\* returns a failure with a reason and leaves every assignment and every
\* approval request as it was.
Thm_C22 ==
    [][(last'.op \in LifecycleOps /\ ~last'.ok)
       => /\ last'.info \notin {"ok", "approved", "denied", "pending", "queued"}
          /\ assignments' = assignments
          /\ requests' = requests]_vars

\* C22 is exercised when the approval of a break has failed because the
\* assignment had been completed: the request is still PENDING.
Witness_C22 ==
    /\ last.op = "resolve_break" /\ ~last.ok /\ last.info = "start_failed"
    /\ assignments[last.aid].status = COMPLETED
    /\ \E r \in RequestIds :
          /\ requests[r].assignment_id = last.aid
          /\ requests[r].type \in BreakTypes
          /\ requests[r].status = PENDING
          /\ requests[r].resolved_at = NoTime

HourOf(u) == calculate_hour_index(shifts[u].start_at, now)

\* No on-shift operator has an assignment for the current hour.
FreshHour ==
    /\ get_on_shift_operators # {}
    /\ \A u \in get_on_shift_operators, a \in AssignmentIds :
          ~(/\ assignments[a].user_id = u
            /\ assignments[a].shift_id = shifts[u].id
            /\ assignments[a].hour_index = HourOf(u))

NewRows == (Len(assignments) + 1)..Len(assignments')

\* C23: an hourly generation that starts with no assignment of the current
\* hour creates one PENDING_ACK assignment per on-shift operator, ending at
\* the next hour boundary; one of them carries the comms-lead task and
\* belongs to the operator select_comms_lead returns, the others carry the
\* default task, and last_comms_lead_at of that operator is updated.
Claim_C23 ==
    [][(last'.op = "post_hourly" /\ PostHourly /\ FreshHour)
       => LET lead == select_comms_lead(get_on_shift_operators)
          IN /\ \A u \in get_on_shift_operators :
                   Cardinality({a \in NewRows :
                       assignments'[a].user_id = u}) = 1
             /\ \A a \in NewRows :
                   /\ assignments'[a].user_id \in get_on_shift_operators
                   /\ assignments'[a].status = PENDING_ACK
                   /\ assignments'[a].ends_at = NextHourBoundary(now)
                   /\ assignments'[a].task_name =
                         IF assignments'[a].user_id = lead
                         THEN CommsLead ELSE DataLabelling
             /\ \A a \in AssignmentIds : assignments'[a] = assignments[a]
             /\ users'[lead].last_comms_lead_at = now]_vars

\* The watch escalates o now and nobody can take it over.
EscalatedAlone(o) == Escalated(o) /\ DefaultTaskRows(o) = {}

BreakApproved(aid) ==
    /\ last'.op = "resolve_break" /\ last'.info = "approved"
    /\ last'.aid = aid
    /\ \E t \in BreakTypes, adm \in Admins :
          ResolveBreak(aid, Owner(aid), t, TRUE, adm)

\* The row c covers for the break-taker of aid after the step.
TakesOver(c, aid) ==
    /\ assignments'[c].status = COVERING
    /\ assignments'[c].covering_for_user_id = assignments[aid].user_id
    /\ assignments'[c].task_name = assignments[aid].task_name
    /\ assignments'[c].template_id = assignments[aid].template_id
    /\ assignments'[c].params = assignments[aid].params

\* C25: the approval of a PENDING break request changes no other assignment
\* when the break-taker is on the default task; otherwise, when another
\* user is ACTIVE on the default task in the hour, exactly one such
\* assignment becomes COVERING for the break-taker with the break-taker's
\* task name, template and parameters.
Thm_C25 ==
    [][\A aid \in AssignmentIds :
          BreakApproved(aid)
          => IF assignments[aid].task_name = DataLabelling
             THEN \A b \in AssignmentIds \ {aid} :
                     assignments'[b] = assignments[b]
             ELSE DefaultTaskRows(aid) # {}
                  => \E c \in DefaultTaskRows(aid) :
                        /\ TakesOver(c, aid)
                        /\ \A b \in AssignmentIds \ {aid, c} :
                              assignments'[b] = assignments[b]]_vars

\* C25 is exercised when a break on the comms-lead task with parameters has
\* been approved, one of two available operators covers it with the same
\* parameters, and the other stays on the default task.
Witness_C25 ==
    /\ last.op = "resolve_break" /\ last.info = "approved"
    /\ assignments[last.aid].task_name = CommsLead
    /\ assignments[last.aid].params # EmptyParams
    /\ \E c, d \in AssignmentIds :
          /\ c # d
          /\ assignments[c].status = COVERING
          /\ assignments[c].covering_for_user_id = last.uid
          /\ assignments[c].params = assignments[last.aid].params
          /\ assignments[d].status = ACTIVE
          /\ assignments[d].task_name = DataLabelling

Apart(r, q) ==
    IF requests[r].requested_at >= requests[q].requested_at
    THEN requests[r].requested_at - requests[q].requested_at
    ELSE requests[q].requested_at - requests[r].requested_at

\* C26: any two EDIT requests of a user, and any two END_EARLY requests of
\* a user, were created at least the cooldown apart.
Claim_C26 ==
    \A r, q \in RequestIds :
        (/\ r # q
         /\ requests[r].user_id = requests[q].user_id
         /\ requests[r].type = requests[q].type
         /\ requests[r].type \in {EDIT, END_EARLY})
        => Apart(r, q) >= CooldownMinutes

\* The step changes the status of an assignment or of an approval request.
StatusChanged ==
    \/ \E a \in AssignmentIds : assignments'[a].status # assignments[a].status
    \/ \E r \in RequestIds : requests'[r].status # requests[r].status

\* Every counter of the audit log has room for one more entry.
AuditHasRoom == \A k \in DOMAIN audit : audit[k] < AuditCap

\* The step appends an entry to the audit log.
AuditAppended ==
    \E k \in DOMAIN audit' : k \notin DOMAIN audit \/ audit'[k] > audit[k]

\* The step removes no entry of the audit log.
AuditKept ==
    \A k \in DOMAIN audit : k \in DOMAIN audit' /\ audit'[k] >= audit[k]

RECURSIVE InFlight(_, _)
InFlight(j, s) ==
    IF s > Len(schedulers) THEN 0 ELSE schedulers[s][j] + InFlight(j, s + 1)

\* C28: each of the three triggers has at most one execution in flight.
Claim_C28 == \A j \in JobIds : InFlight(j, 1) <= 1

\* Within one scheduler object no job has two executions in flight.
OnePerScheduler ==
    \A s \in DOMAIN schedulers, j \in JobIds : schedulers[s][j] <= max_instances

\* The members of a list.
Members(seq) == {seq[i] : i \in 1..Len(seq)}

\* The reorderings of a list.
Reorderings(seq) ==
    {[i \in 1..Len(seq) |-> seq[p[i]]] :
        p \in {q \in [1..Len(seq) -> 1..Len(seq)] :
                  \A i, j \in 1..Len(seq) : i # j => q[i] # q[j]}}

\* u is not behind v under (last_comms_lead_at with never first, user id).
LeadNotBehind(u, v) ==
    LET tu == users[u].last_comms_lead_at
        tv == users[v].last_comms_lead_at
    IN \/ tu = NoTime /\ tv # NoTime
       \/ tu # NoTime /\ tv # NoTime /\ tu < tv
       \/ tu = tv /\ u <= v

\* C29: select_comms_lead returns no user exactly for the empty list; for
\* any other list it returns a member that is minimal under
\* (last_comms_lead_at with never first, user id), and every reordering of
\* the list has the same result.
Thm_C29 ==
    last.op = "select_comms_lead" =>
        /\ (last.uid = NoUser) <=> (last.esc = <<>>)
        /\ last.esc # <<>> =>
              /\ last.uid \in Members(last.esc)
              /\ \A v \in Members(last.esc) : LeadNotBehind(last.uid, v)
        /\ \A r \in Reorderings(last.esc) :
              select_comms_lead_list(r) = last.uid

\* The selection was applied to a list where the user with the lowest id
\* has served, another has never served, and the earliest never-served
\* user is not at the head of the list.
Witness_C29 ==
    /\ last.op = "select_comms_lead"
    /\ Len(last.esc) >= 3
    /\ \E u, v \in Members(last.esc) :
          /\ u < v
          /\ users[u].last_comms_lead_at # NoTime
          /\ users[v].last_comms_lead_at = NoTime
          /\ last.uid = v
    /\ last.esc[1] # last.uid

\* The selection over the set of on-shift operators used by the hourly
\* generation agrees with the selection over any list of them.
LeadSelectionsAgree ==
    last.op = "select_comms_lead" =>
        select_comms_lead(Members(last.esc)) = last.uid

\* now is before the window_start or after the window_end of the template.
OutOfWindow(template, current_time) ==
    \/ template.window_start # NoTime /\ current_time < template.window_start
    \/ template.window_end # NoTime /\ current_time > template.window_end

\* Template a is strictly before template b under (priority ascending,
\* in-window before out-of-window, created_at ascending).
PoolBefore(a, b, current_time) ==
    \/ a.priority < b.priority
    \/ /\ a.priority = b.priority
       /\ ~OutOfWindow(a, current_time) /\ OutOfWindow(b, current_time)
    \/ /\ a.priority = b.priority
       /\ OutOfWindow(a, current_time) = OutOfWindow(b, current_time)
       /\ a.created_at < b.created_at

\* The active templates of a list.
ActiveIn(templates) == {i \in 1..Len(templates) : templates[i].is_active}

\* C30: select_task_from_pool returns none exactly when the list has no
\* active template; otherwise it returns an active template with no active
\* template before it under (priority, in-window first, created_at), and an
\* out-of-window template of strictly lowest priority number is returned.
Thm_C30 ==
    last.op = "select_task_from_pool" =>
        /\ (last.aid = NoId) <=> (ActiveIn(last.esc) = {})
        /\ last.aid # NoId =>
              /\ last.aid \in ActiveIn(last.esc)
              /\ \A i \in ActiveIn(last.esc) :
                    ~PoolBefore(last.esc[i], last.esc[last.aid], last.n)
        /\ \A i \in ActiveIn(last.esc) :
              (/\ OutOfWindow(last.esc[i], last.n)
               /\ \A j \in ActiveIn(last.esc) \ {i} :
                     last.esc[i].priority < last.esc[j].priority)
              => last.aid = i

\* The selection returned the second template of the list, which is out of
\* its window, while the first is active, in its window and older but has a
\* higher priority number.
Witness_C30 ==
    /\ last.op = "select_task_from_pool"
    /\ Len(last.esc) = 2
    /\ last.aid = 2
    /\ OutOfWindow(last.esc[2], last.n)
    /\ last.esc[1].is_active
    /\ ~OutOfWindow(last.esc[1], last.n)
    /\ last.esc[1].created_at < last.esc[2].created_at
    /\ last.esc[1].priority > last.esc[2].priority

\* The number of rows among ids i.. of the list that are ACTIVE or COVERING
\* and not owned by u.
RECURSIVE Remaining(_, _, _)
Remaining(active_list, u, i) ==
    IF i > Len(assignments) THEN 0
    ELSE (IF /\ i \in active_list
             /\ assignments[i].status = ACTIVE \/ assignments[i].status = COVERING
             /\ assignments[i].user_id # u
          THEN 1 ELSE 0) + Remaining(active_list, u, i + 1)

\* The staffing levels the check is asked about.
StaffingLevels == 0..(Cardinality(Users) + 1)

\* C31: for every list of assignment rows, user u and level n,
\* check_minimum_staffing is true exactly when at least n rows of the list
\* are ACTIVE or COVERING and not owned by u; paused and unacknowledged rows
\* do not count.
Thm_C31 ==
    \A active_list \in SUBSET AssignmentIds, u \in Users, n \in StaffingLevels :
        check_minimum_staffing(assignments, active_list, u, n)
            <=> (Remaining(active_list, u, 1) >= n)

\* A list with a paused row, an unacknowledged row and exactly one ACTIVE or
\* COVERING row of another user than the owner of the paused one: level 1
\* passes for that owner and level 2 does not.
Witness_C31 ==
    \E p, q, a \in AssignmentIds :
        /\ assignments[p].status \in PausedStatuses
        /\ assignments[q].status = PENDING_ACK
        /\ assignments[a].status = COVERING
        /\ assignments[a].user_id # assignments[p].user_id
        /\ check_minimum_staffing(assignments, {p, q, a},
                                  assignments[p].user_id, 1)
        /\ ~check_minimum_staffing(assignments, {p, q, a},
                                   assignments[p].user_id, 2)

\* The hour of the shift that time t lies in: 1 before the start and in the
\* first hour, one more for every full hour since the start, 9 at most.
HourOfShift(start, t) ==
    IF t < start + HourMinutes THEN 1
    ELSE IF t >= start + (ShiftHours - 1) * HourMinutes THEN ShiftHours
    ELSE CHOOSE h \in 2..(ShiftHours - 1) :
            /\ start + (h - 1) * HourMinutes <= t
            /\ t < start + h * HourMinutes

\* C32: calculate_hour_index is the number of hours begun since the shift
\* start, kept within 1..9: 2 one hour after the start, 9 nine hours after
\* it, 1 before the start, and never smaller than at an earlier time.
Thm_C32 ==
    last.op = "calculate_hour_index" =>
        LET start == shifts[last.uid].start_at
        IN /\ last.n = HourOfShift(start, now)
           /\ last.n \in 1..ShiftHours
           /\ now = start + HourMinutes => last.n = 2
           /\ now = start + ShiftHours * HourMinutes => last.n = ShiftHours
           /\ now < start => last.n = 1
           /\ \A t \in 0..now : calculate_hour_index(start, t) <= last.n

\* The hour index was computed nine hours after a shift start that is not
\* at time 0, where the unclamped value is 10.
Witness_C32 ==
    /\ last.op = "calculate_hour_index"
    /\ shifts[last.uid].start_at > 0
    /\ now = shifts[last.uid].start_at + ShiftHours * HourMinutes
    /\ last.n = ShiftHours

LiveStatuses == {PENDING_ACK, ACTIVE, COVERING, PAUSED_BREAK, PAUSED_LUNCH}

\* The assignments of user u that have not ended.
LiveOf(u) ==
    {a \in AssignmentIds :
        assignments[a].user_id = u /\ assignments[a].status \in LiveStatuses}

\* C34: every user has at most one assignment that has not ended.
Claim_C34 == \A u \in Users : Cardinality(LiveOf(u)) <= 1

\* Assignment c covers the break of user u: break coverage made it COVERING
\* for u.
CoversBreakOf(c, u) ==
    /\ c \in DOMAIN preCoverage
    /\ assignments[c].status = COVERING
    /\ assignments[c].covering_for_user_id = u

LeadsOfHour(k) ==
    {assignments[a].user_id : a \in {b \in AssignmentIds :
        /\ assignments[b].created_at \div HourMinutes = k
        /\ assignments[b].task_name = CommsLead
        /\ assignments[b].covering_for_user_id = NoUser
        /\ OnShift(assignments[b].user_id)}}

\* C36: in every wall-clock hour at most one on-shift operator holds an
\* assignment with the comms-lead task, after any number of hourly
\* generation runs, and a run stamps last_comms_lead_at only for an operator
\* it gave the comms-lead task.
Claim_C36 ==
    /\ \A k \in 0..(MaxTime \div HourMinutes) + 1 :
          Cardinality(LeadsOfHour(k)) <= 1
    /\ \A u \in Users :
          users[u].last_comms_lead_at # NoTime
          => u \in LeadsOfHour(users[u].last_comms_lead_at \div HourMinutes)

\* The break whose countdown task is i ends in this step: the task fires,
\* or the owner cancels the break while the task sleeps.
BreakEnds(i) ==
    /\ ~countdowns[i].cancelled
    /\ Paused(countdowns[i].assignment_id)
    /\ \/ last'.op = "countdown_fire" /\ CountdownFire(i)
       \/ /\ last'.op = "cancel_break" /\ last'.ok
          /\ last'.aid = countdowns[i].assignment_id
          /\ countdowns[i].pc = "sleeping"
          /\ CancelBreak(countdowns[i].assignment_id, countdowns[i].user_id)

ActiveRoundTrip ==
    [][\A i \in 1..Len(countdowns) :
          (BreakEnds(i) /\ countdowns[i].paused_row.status = ACTIVE)
          => LET after == assignments'[countdowns[i].assignment_id]
                 before == countdowns[i].paused_row
             IN /\ after.status = before.status
                /\ after.task_name = before.task_name
                /\ after.params = before.params
                /\ after.covering_for_user_id = before.covering_for_user_id]_vars

\* The wall-clock hours of the run.
WallHours == 0..(MaxTime \div HourMinutes) + 1

\* Every hour of the N hours from k on has had its hourly generation.
Generated(k, N) == \A j \in k..(k + N - 1) : LeadsOfHour(j) # {}

\* C38: with N operators on shift, the comms leads of any N consecutive
\* hours are N different operators: every operator serves once before any
\* operator serves again.
Claim_C38 ==
    LET N == Cardinality(get_on_shift_operators)
    IN \A k \in WallHours :
          (N > 0 /\ Generated(k, N))
          => UNION {LeadsOfHour(j) : j \in k..(k + N - 1)}
                = get_on_shift_operators

CancelCalled(aid, uid) ==
    /\ last'.op = "cancel_break"
    /\ last'.aid = aid /\ last'.uid = uid
    /\ CancelBreak(aid, uid)

\* C40: cancel_break succeeds exactly when the assignment is paused for a
\* break and the caller owns it, and a successful call leaves the assignment
\* ACTIVE.
Claim_C40 ==
    [][\A aid \in AssignmentIds, uid \in Users :
          CancelCalled(aid, uid)
          => /\ last'.ok <=> (Paused(aid) /\ Owner(aid) = uid)
             /\ last'.ok => assignments'[aid].status = ACTIVE]_vars

\* The same while the process keeps running and the paused assignment is
\* not ended by an end-early approval: the break is registered.
CancelOfRegisteredBreak ==
    [][\A aid \in AssignmentIds, uid \in Users :
          (/\ CancelCalled(aid, uid)
           /\ aid \in DOMAIN break_timers <=> Paused(aid))
          => /\ last'.ok <=> (Paused(aid) /\ Owner(aid) = uid)
             /\ last'.ok => assignments'[aid].status = ACTIVE]_vars

==========================================================================
